---------------------------- MODULE Spec2Model ----------------------------
(***************************************************************************)
(* Snapshot reconciliation of mobx-keystone                                 *)
(* (packages/lib/src/snapshot/reconcileSnapshot.ts).                        *)
(*                                                                          *)
(* The live tree is a root array whose slots hold model nodes or            *)
(* primitives; every model node carries a type, an id and one primitive     *)
(* field v.  A reconcileSnapshot call runs to completion inside the calling *)
(* turn; the observable mutations it performs (the writes that reach the    *)
(* tree and emit a patch) are taken one per step, so that the states an     *)
(* observer sees between two mutations are states of the model.             *)
(***************************************************************************)
EXTENDS Integers, Sequences, FiniteSets, TLC

VARIABLES
    arr,          \* the slots of the root array (a sequence of live values)
    models,       \* the model nodes: identity -> [live, type, id, v]
    dirty,        \* nodes whose cached snapshot was invalidated since the call began
    patches,      \* the mutations observed since the call began, in order
    reconcilers,  \* the module-level reconciler registry
    pc,           \* "idle" | "running" | "done": position of the reconcileSnapshot call
    call,         \* arguments and pre-state of the current (or last) call
    pending,      \* the mutations of the running call not yet observed
    fin,          \* what the running call will return or throw
    outcome,      \* what the last completed call returned or threw
    parentOf,     \* tracked objects of the type layer: object -> its parent object
    content,      \* tracked objects of the type layer: object -> its field v
    checkResultCache,
                  \* TypeChecker.checkResultCache: checker -> object -> result
    typeCheckersWithCachedResultsOfObject,
                  \* object -> the checkers listening to its changes
    toSnapshotProcessorCache,
                  \* TypeChecker._toSnapshotProcessorCache: checker -> object -> output
    typeCheckersWithCachedSnapshotProcessorResultsOfObject,
                  \* object -> the checkers holding a processor output for it
    lateCached,   \* the variable `cached` of the late type checker's closure
    checkRuns,    \* history: runs of the validation function per (checker, object)
                  \* since the object was last invalidated
    toRuns,       \* history: runs of the "to" processor per (checker, object)
                  \* since the object was last invalidated
    fnCalls,      \* history: evaluations of the late type checker's function
    last,         \* history: the last operation of the type layer and its result
    props,        \* the property descriptors created so far, in creation order
    generatorCalls,
                  \* history: calls of default value generators made so far
    propLast,     \* history: the last operation on properties and its result
    layers,       \* history: per descriptor, the processor pairs added to it
    transformCache,
                  \* the caches of the full transforms: (transform, model, prop) -> entry
    cacheTransformResult,
                  \* the module-level flag cacheTransformResult of prop.ts
    untransforms, \* the untransform calls in progress, the innermost last
    transformLast \* history: the last finished transform or untransform call

treeVars == <<arr, models, dirty, patches, reconcilers, pc, call, pending, fin, outcome>>
typeVars == <<parentOf, content, checkResultCache,
              typeCheckersWithCachedResultsOfObject, toSnapshotProcessorCache,
              typeCheckersWithCachedSnapshotProcessorResultsOfObject, lateCached,
              checkRuns, toRuns, fnCalls, last>>
propVars == <<props, generatorCalls, propLast, layers>>
transformVars == <<transformCache, cacheTransformResult, untransforms, transformLast>>
vars == <<treeVars, typeVars, propVars, transformVars>>

(***************************************************************************)
(* Bounds of the model.                                                     *)
(***************************************************************************)
\* longest array (live or in a target snapshot)
MaxLen == 2
\* registerReconciler calls made by callers other than registerDefaultReconcilers
MaxCustom == 2

\* identities of model nodes: enough for a full array plus a full array of
\* freshly constructed instances
NodeIds == 1 .. (2 * MaxLen)
\* identity of the root array
ArrId == 0

ModelType == "A"
ModelIds == {"1", "2", "3"}
FieldVals == {"2", "9"}

(***************************************************************************)
(* Values.  A live value is a primitive or a reference to a node.           *)
(***************************************************************************)
Prim(p) == [kind |-> "prim", p |-> p]
Null == Prim("null")
Undefined == Prim("undefined")
Node(o) == [kind |-> "node", o |-> o]

FreeCell == [live |-> FALSE, type |-> "", id |-> "", v |-> ""]

\* isPrimitive / isMap / isSet / isArray of ../utils, isModel of ../model/utils
isPrimitive(x) == x.kind = "prim"
isMap(x) == x.kind = "map"
isSet(x) == x.kind = "set"
isArray(x) == x.kind = "array"
isModel(x) == x.kind = "node" /\ x.o # ArrId

(***************************************************************************)
(* Snapshots.  A snapshot of a node is an immutable plain object; its       *)
(* reference identity is the field ref.  <<o, e>> is the snapshot cached    *)
(* for node o: e = 0 the one cached when the call began, e = 1 the one      *)
(* derived after an invalidation during the call.  Ext is the identity of   *)
(* an object the caller built (never identical to a cached snapshot).       *)
(***************************************************************************)
Ext == <<-1, 0>>
SnModel(ref, type, id, v) ==
    [kind |-> "model", ref |-> ref, type |-> type, id |-> id, v |-> v]
SnArray(ref, items) == [kind |-> "array", ref |-> ref, items |-> items]
SnMap == [kind |-> "map", ref |-> Ext]
SnSet == [kind |-> "set", ref |-> Ext]
\* an object that is neither plain, nor an array, nor a map or set
SnOther == [kind |-> "other", ref |-> Ext]

CurRef(st, o) == <<o, IF o \in st.dirty THEN 1 ELSE 0>>

\* getSnapshot of a slot value: a primitive is its own snapshot
getItemSnapshot(st, value) ==
    IF isPrimitive(value) THEN value
    ELSE LET m == st.models[value.o]
         IN SnModel(CurRef(st, value.o), m.type, m.id, m.v)

getSnapshot(st, value) ==
    IF isPrimitive(value) THEN value
    ELSE IF value.o = ArrId
    THEN SnArray(CurRef(st, ArrId),
                 [i \in 1 .. Len(st.arr) |-> getItemSnapshot(st, st.arr[i])])
    ELSE getItemSnapshot(st, value)

\* the content of a snapshot, without the identities of its objects
Strip(sn) ==
    IF sn.kind = "array"
    THEN [kind |-> "array",
          items |-> [i \in 1 .. Len(sn.items) |->
                        IF sn.items[i].kind = "model"
                        THEN [sn.items[i] EXCEPT !.ref = Ext]
                        ELSE sn.items[i]]]
    ELSE IF sn.kind = "model" THEN [sn EXCEPT !.ref = Ext]
    ELSE sn

DeepEquals(a, b) == Strip(a) = Strip(b)

(***************************************************************************)
(* The tree: parent paths and the observable mutations.                     *)
(***************************************************************************)
\* the slots of the root array that hold node o
SlotsOf(a, o) == {i \in 1 .. Len(a) : a[i] = Node(o)}

\* fastGetParentPathIncludingDataObjects: undefined (none) for a root or a
\* detached node
NoParent == [parent |-> -1, path |-> 0]
fastGetParentPathIncludingDataObjects(st, value) ==
    IF isModel(value) /\ SlotsOf(st.arr, value.o) # {}
    THEN [parent |-> ArrId, path |-> CHOOSE i \in SlotsOf(st.arr, value.o) : TRUE]
    ELSE NoParent

\* a mutation of `obj` invalidates the cached snapshot of obj and of every
\* ancestor up to the root
\* invalidates obj only
Invalidated_OnlySelf(st, obj) == {obj}

\* invalidates the whole tree
Invalidated_WholeTree(st, obj) ==
    {obj, ArrId} \cup {o \in NodeIds : SlotsOf(st.arr, o) # {}}

Invalidated(st, obj) ==
    IF obj # ArrId /\ SlotsOf(st.arr, obj) # {} THEN {obj, ArrId} ELSE {obj}

\* the snapshot content of a slot value, as a patch carries it
ItemContent(ms, value) ==
    IF isPrimitive(value) THEN value
    ELSE SnModel(Ext, ms[value.o].type, ms[value.o].id, ms[value.o].v)

\* every mutation record carries the array as it was before the mutation (pre),
\* the place in the code that made it (by) and, as the patch emitted for it,
\* the content written (value), the content replaced (oldValue) and the
\* contents a splice removed (removed)
Observe(st, mut, newArr, newModels, obj) ==
    LET d == st.dirty \cup Invalidated(st, obj)
    IN [st EXCEPT
          !.arr = newArr,
          !.models = newModels,
          !.dirty = d,
          !.steps = Append(@, [mut |-> mut, arr |-> newArr,
                               models |-> newModels, dirty |-> d])]

\* mobx set(obj, key, value): a write of the value already there changes nothing
set(st, obj, key, newValue, by) ==
    IF obj = ArrId
    THEN IF st.arr[key] = newValue THEN st
         ELSE Observe(st,
                      [op |-> "set", obj |-> ArrId, key |-> key, new |-> newValue,
                       old |-> st.arr[key], by |-> by, pre |-> st.arr,
                       value |-> ItemContent(st.models, newValue),
                       oldValue |-> ItemContent(st.models, st.arr[key]),
                       removed |-> <<>>],
                      [st.arr EXCEPT ![key] = newValue], st.models, ArrId)
    ELSE IF Prim(st.models[obj].v) = newValue THEN st
         ELSE Observe(st,
                      [op |-> "set", obj |-> obj, key |-> 0, new |-> newValue,
                       old |-> Prim(st.models[obj].v), by |-> by, pre |-> st.arr,
                       value |-> newValue, oldValue |-> Prim(st.models[obj].v),
                       removed |-> <<>>],
                      st.arr, [st.models EXCEPT ![obj].v = newValue.p], obj)

\* this.$modelId = id inside a model action: a write to the id property
setId(st, obj, id, by) ==
    IF st.models[obj].id = id THEN st
    ELSE Observe(st,
                 [op |-> "setId", obj |-> obj, key |-> 0, new |-> Prim(id),
                  old |-> Prim(st.models[obj].id), by |-> by, pre |-> st.arr,
                  value |-> Prim(id), oldValue |-> Prim(st.models[obj].id),
                  removed |-> <<>>],
                 st.arr, [st.models EXCEPT ![obj].id = id], obj)

\* array.splice(start, deleteCount) removing the tail from index `len` + 1 on
\* emits a patch that names the index after the first one removed
splice_OffByOne(st, len, by) ==
    Observe(st,
            [op |-> "splice", obj |-> ArrId, key |-> len + 2,
             new |-> Undefined, old |-> Undefined, by |-> by, pre |-> st.arr,
             value |-> Undefined, oldValue |-> Undefined,
             removed |-> [i \in 1 .. Len(st.arr) - len |->
                             ItemContent(st.models, st.arr[len + i])]],
            SubSeq(st.arr, 1, len), st.models, ArrId)

splice(st, len, by) ==
    Observe(st,
            [op |-> "splice", obj |-> ArrId, key |-> len + 1,
             new |-> Undefined, old |-> Undefined, by |-> by, pre |-> st.arr,
             value |-> Undefined, oldValue |-> Undefined,
             removed |-> [i \in 1 .. Len(st.arr) - len |->
                             ItemContent(st.models, st.arr[len + i])]],
            SubSeq(st.arr, 1, len), st.models, ArrId)

\* array.push(value)
push(st, newValue, by) ==
    Observe(st,
            [op |-> "push", obj |-> ArrId, key |-> Len(st.arr) + 1,
             new |-> newValue, old |-> Undefined, by |-> by, pre |-> st.arr,
             value |-> ItemContent(st.models, newValue), oldValue |-> Undefined,
             removed |-> <<>>],
            Append(st.arr, newValue), st.models, ArrId)

(***************************************************************************)
(* The reconciler registry.                                                 *)
(***************************************************************************)
\* Array.prototype.sort((a, b) => a.priority - b.priority): a stable sort
RECURSIVE InsertByPriority(_, _)
InsertByPriority(sorted, e) ==
    IF sorted = <<>> THEN <<e>>
    ELSE IF Head(sorted).priority <= e.priority
         THEN <<Head(sorted)>> \o InsertByPriority(Tail(sorted), e)
         ELSE <<e>> \o sorted

RECURSIVE SortByPriority(_)
SortByPriority(s) ==
    IF s = <<>> THEN <<>>
    ELSE InsertByPriority(SortByPriority(SubSeq(s, 1, Len(s) - 1)), s[Len(s)])

\* lacks the sort
registerReconciler_Unsorted(regs, priority, reconciler) ==
    Append(regs, [priority |-> priority, reconciler |-> reconciler])

\* sorts the new entry before the entries of equal priority
registerReconciler_Unstable(regs, priority, reconciler) ==
    SelectSeq(regs, LAMBDA e : e.priority < priority)
    \o <<[priority |-> priority, reconciler |-> reconciler]>>
    \o SelectSeq(regs, LAMBDA e : e.priority >= priority)

registerReconciler(regs, priority, reconciler) ==
    SortByPriority(Append(regs, [priority |-> priority, reconciler |-> reconciler]))

\* the reconcilers registerDefaultReconcilers registers, with their priorities
DefaultReconcilers ==
    <<[priority |-> 0, reconciler |-> "array"],
      [priority |-> 2, reconciler |-> "model"]>>

defaultReconcilersRegistered(regs) ==
    \E i \in 1 .. Len(regs) : regs[i].reconciler = "array"

\* registers the default reconcilers the first time it is called
registerDefaultReconcilers(regs) ==
    IF defaultReconcilersRegistered(regs) THEN regs
    ELSE registerReconciler(
             registerReconciler(regs, DefaultReconcilers[1].priority,
                                DefaultReconcilers[1].reconciler),
             DefaultReconcilers[2].priority, DefaultReconcilers[2].reconciler)

\* reconcilers registered by other callers of registerReconciler: each claims
\* the snapshots of some kinds and returns a value of its own for them
CustomReconcilers == {"c1", "c2"}
CustomClaims(r) == IF r = "c1" THEN {"array", "map"} ELSE {"set"}
Priorities == {-1, 1, 5}

(***************************************************************************)
(* ModelPool.                                                               *)
(***************************************************************************)
NoModel == -1
findModelByTypeAndId(st, modelPool, type, id) ==
    LET found == {o \in modelPool :
                     st.models[o].type = type /\ st.models[o].id = id}
    IN IF found = {} THEN NoModel ELSE CHOOSE o \in found : TRUE

(***************************************************************************)
(* detachIfNeeded.                                                          *)
(***************************************************************************)
\* never detaches
detachIfNeeded_Never(st, newValue, oldValue, modelPool) == st

\* detaches the old value's location instead of the new value's
detachIfNeeded_DetachesOld(st, newValue, oldValue, modelPool) ==
    IF newValue = oldValue THEN st
    ELSE IF isModel(newValue)
            /\ findModelByTypeAndId(st, modelPool, st.models[newValue.o].type,
                                    st.models[newValue.o].id) # NoModel
         THEN LET parentPath == fastGetParentPathIncludingDataObjects(st, oldValue)
              IN IF parentPath # NoParent
                 THEN set(st, parentPath.parent, parentPath.path, Null,
                          "detachIfNeeded")
                 ELSE st
         ELSE st

\* lacks the early return for a value that is already where it should be
detachIfNeeded_NoEarlyReturn(st, newValue, oldValue, modelPool) ==
    IF isModel(newValue)
       /\ findModelByTypeAndId(st, modelPool, st.models[newValue.o].type,
                               st.models[newValue.o].id) # NoModel
    THEN LET parentPath == fastGetParentPathIncludingDataObjects(st, newValue)
         IN IF parentPath # NoParent
            THEN set(st, parentPath.parent, parentPath.path, Null, "detachIfNeeded")
            ELSE st
    ELSE st

\* detaches a model the pool has no entry for
detachIfNeeded_IgnoresPool(st, newValue, oldValue, modelPool) ==
    IF newValue = oldValue THEN st
    ELSE IF isModel(newValue)
         THEN LET parentPath == fastGetParentPathIncludingDataObjects(st, newValue)
              IN IF parentPath # NoParent
                 THEN set(st, parentPath.parent, parentPath.path, Null,
                          "detachIfNeeded")
                 ELSE st
         ELSE st

detachIfNeeded(st, newValue, oldValue, modelPool) ==
    IF newValue = oldValue
    THEN st   \* already where it should be
    ELSE IF isModel(newValue)
            /\ findModelByTypeAndId(st, modelPool, st.models[newValue.o].type,
                                    st.models[newValue.o].id) # NoModel
         THEN LET parentPath == fastGetParentPathIncludingDataObjects(st, newValue)
              IN IF parentPath # NoParent
                 THEN set(st, parentPath.parent, parentPath.path, Null,
                          "detachIfNeeded")
                 ELSE st
         ELSE st

(***************************************************************************)
(* reconcileSnapshot and the reconcilers.                                   *)
(* Each returns [st, ret, err, tried]: the state it leaves, the value it    *)
(* returns (Undefined when it throws), the failure it throws ("" when it    *)
(* returns) and, for reconcileSnapshot, the registry entries it invoked.    *)
(***************************************************************************)
Return(st, ret, tried) == [st |-> st, ret |-> ret, err |-> "", tried |-> tried]
Throw(st, msg, tried) == [st |-> st, ret |-> Undefined, err |-> msg, tried |-> tried]

\* fromSnapshot of a model snapshot: a new instance
fromSnapshot(st, sn) ==
    LET free == {o \in NodeIds : ~st.models[o].live}
    IN IF free = {}
       THEN Return([st EXCEPT !.oom = TRUE], Undefined, <<>>)
       ELSE LET o == CHOOSE x \in free : \A y \in free : x <= y
            IN Return([st EXCEPT !.models[o] =
                          [live |-> TRUE, type |-> sn.type, id |-> sn.id, v |-> sn.v]],
                      Node(o), <<>>)

\* line 32: the snapshot passed is exactly (===) the current one
\* compares the value, not its snapshot, with the snapshot passed
AlreadyReconciled_ComparesValue(st, value, sn) == value = sn

AlreadyReconciled(st, value, sn) ==
    ~isPrimitive(value) /\ getSnapshot(st, value).ref = sn.ref

\* lines 47-55: no reconciler claimed the snapshot
\* lacks the check for maps
UnclaimedFailure_NoMapCheck(sn) ==
    IF isSet(sn) THEN "a snapshot must not contain sets"
    ELSE "unsupported snapshot"

\* reports every snapshot that is not a set as a map
UnclaimedFailure_EverythingIsMap(sn) ==
    IF isSet(sn) THEN "a snapshot must not contain sets"
    ELSE "a snapshot must not contain maps"

UnclaimedFailure(sn) ==
    IF isMap(sn) THEN "a snapshot must not contain maps"
    ELSE IF isSet(sn) THEN "a snapshot must not contain sets"
    ELSE "unsupported snapshot"

\* lines 26-28: a primitive snapshot is returned as it is
\* returns the current value instead of the snapshot
PrimitiveResult_Value(value, sn) == value

PrimitiveResult(value, sn) == sn

RECURSIVE reconcileSnapshot(_, _, _, _, _)
RECURSIVE tryReconcilers(_, _, _, _, _, _, _, _)
RECURSIVE reconcileArrayItems(_, _, _, _)
RECURSIVE reconcileArrayPush(_, _, _, _)

\* the model reconciler: reuses the pooled instance with the snapshot's
\* (type, id), else the current value when it is that model, else constructs
\* writes the id of the snapshot into the node it was given
reconcileModelSnapshot_RewritesId(st, value, sn, modelPool, parent) ==
    LET modelInPool == findModelByTypeAndId(st, modelPool, sn.type, sn.id)
        target == IF modelInPool # NoModel THEN Node(modelInPool) ELSE value
    IN IF ~isModel(target) \/ st.models[target.o].type # sn.type
       THEN fromSnapshot(st, sn)
       ELSE Return(set(setId(st, target.o, sn.id, "model"),
                       target.o, 0, Prim(sn.v), "model"),
                   target, <<>>)

reconcileModelSnapshot(st, value, sn, modelPool, parent) ==
    LET modelInPool == findModelByTypeAndId(st, modelPool, sn.type, sn.id)
        target == IF modelInPool # NoModel THEN Node(modelInPool) ELSE value
    IN IF ~isModel(target)
          \/ st.models[target.o].type # sn.type
          \/ st.models[target.o].id # sn.id
       THEN fromSnapshot(st, sn)
       ELSE LET oldValue == Prim(st.models[target.o].v)
                r == reconcileSnapshot(st, oldValue, Prim(sn.v), modelPool, target)
            IN IF r.err # "" THEN Throw(r.st, r.err, <<>>)
               ELSE Return(set(detachIfNeeded(r.st, r.ret, oldValue, modelPool),
                               target.o, 0, r.ret, "model"),
                           target, <<>>)

\* whether the value reconcileSnapshot returned for a slot is a node attached
\* at another location (a relocation): recorded with the attach
AttachBy(st, newValue, oldValue) ==
    IF newValue # oldValue
       /\ fastGetParentPathIncludingDataObjects(st, newValue) # NoParent
    THEN "array:move" ELSE "array"

\* the array reconciler: removes the excess items, reconciles the slots
\* present on both sides by index, then adds the missing items
reconcileArrayPush(st, i, sn, modelPool) ==
    IF i > Len(sn.items) THEN Return(st, Node(ArrId), <<>>)
    ELSE LET r == reconcileSnapshot(st, Undefined, sn.items[i], modelPool, Node(ArrId))
         IN IF r.err # "" \/ r.st.oom THEN Throw(r.st, r.err, <<>>)
            ELSE reconcileArrayPush(
                     push(detachIfNeeded(r.st, r.ret, Undefined, modelPool),
                          r.ret, AttachBy(r.st, r.ret, Undefined)),
                     i + 1, sn, modelPool)

reconcileArrayItems(st, i, sn, modelPool) ==
    IF i > Len(st.arr) THEN reconcileArrayPush(st, Len(st.arr) + 1, sn, modelPool)
    ELSE LET oldValue == st.arr[i]
             r == reconcileSnapshot(st, oldValue, sn.items[i], modelPool, Node(ArrId))
         IN IF r.err # "" \/ r.st.oom THEN Throw(r.st, r.err, <<>>)
            ELSE reconcileArrayItems(
                     set(detachIfNeeded(r.st, r.ret, oldValue, modelPool),
                         ArrId, i, r.ret, AttachBy(r.st, r.ret, oldValue)),
                     i + 1, sn, modelPool)

reconcileArraySnapshot(st, value, sn, modelPool) ==
    LET st1 == IF Len(st.arr) > Len(sn.items)
               THEN splice(st, Len(sn.items), "array")
               ELSE st
    IN reconcileArrayItems(st1, 1, sn, modelPool)

\* one registry entry applied to (value, sn): ret = Undefined when it declines
Reconciler(name, st, value, sn, modelPool, parent) ==
    IF name = "array"
    THEN IF isArray(sn) THEN reconcileArraySnapshot(st, value, sn, modelPool)
         ELSE Return(st, Undefined, <<>>)
    ELSE IF name = "model"
    THEN IF sn.kind = "model"
         THEN reconcileModelSnapshot(st, value, sn, modelPool, parent)
         ELSE Return(st, Undefined, <<>>)
    ELSE IF sn.kind \in CustomClaims(name)
         THEN Return(st, Prim(name), <<>>)
         ELSE Return(st, Undefined, <<>>)

\* lines 38-55: the registry entries in order, then the failures
tryReconcilers(st, i, reconcilersLen, value, sn, modelPool, parent, tried) ==
    IF i > reconcilersLen THEN Throw(st, UnclaimedFailure(sn), tried)
    ELSE LET entry == st.reconcilers[i]
             r == Reconciler(entry.reconciler, st, value, sn, modelPool, parent)
             t == Append(tried, [index |-> i, priority |-> entry.priority,
                                 reconciler |-> entry.reconciler,
                                 claimed |-> r.err # "" \/ r.ret # Undefined])
         IN IF r.err # "" THEN Throw(r.st, r.err, t)
            ELSE IF r.ret # Undefined THEN Return(r.st, r.ret, t)
            ELSE tryReconcilers(r.st, i + 1, reconcilersLen, value, sn,
                                modelPool, parent, t)

\* checks for maps and sets before the registry entries are tried
reconcileSnapshot_MapSetFirst(st, value, sn, modelPool, parent) ==
    IF isPrimitive(sn) THEN Return(st, PrimitiveResult(value, sn), <<>>)
    ELSE IF AlreadyReconciled(st, value, sn) THEN Return(st, value, <<>>)
    ELSE LET st1 == [st EXCEPT !.reconcilers = registerDefaultReconcilers(@)]
         IN IF isMap(sn) \/ isSet(sn) THEN Throw(st1, UnclaimedFailure(sn), <<>>)
            ELSE tryReconcilers(st1, 1, Len(st1.reconcilers), value, sn,
                                modelPool, parent, <<>>)

reconcileSnapshot(st, value, sn, modelPool, parent) ==
    IF isPrimitive(sn) THEN Return(st, PrimitiveResult(value, sn), <<>>)
    ELSE IF AlreadyReconciled(st, value, sn) THEN Return(st, value, <<>>)
    ELSE LET st1 == [st EXCEPT !.reconcilers = registerDefaultReconcilers(@)]
         IN tryReconcilers(st1, 1, Len(st1.reconcilers), value, sn,
                           modelPool, parent, <<>>)

(***************************************************************************)
(* The inputs of a call.                                                    *)
(***************************************************************************)
\* the model nodes of the tree
TreeNodes(a) == {o \in NodeIds : SlotsOf(a, o) # {}}

\* nodes no longer referenced are collected
Collect(a, ms, keep) ==
    [o \in NodeIds |-> IF o \in TreeNodes(a) \cup keep THEN ms[o] ELSE FreeCell]

\* Node identities are opaque: between two calls the nodes of the tree are
\* renumbered in slot order, so that equal trees are equal states.
Rank(a, o) ==
    LET first(x) == CHOOSE i \in SlotsOf(a, x) : \A j \in SlotsOf(a, x) : i <= j
    IN 1 + Cardinality({x \in TreeNodes(a) : first(x) < first(o)})
RenumberedArr(a) ==
    [i \in 1 .. Len(a) |-> IF isModel(a[i]) THEN Node(Rank(a, a[i].o)) ELSE a[i]]
RenumberedModels(a, ms) ==
    [n \in NodeIds |->
        IF \E o \in TreeNodes(a) : Rank(a, o) = n
        THEN ms[CHOOSE o \in TreeNodes(a) : Rank(a, o) = n]
        ELSE FreeCell]

\* model snapshots: built by the caller, or the cached snapshot of a tree node
ModelTargets(st) ==
    {SnModel(Ext, ModelType, id, v) : id \in ModelIds, v \in FieldVals}
    \cup {getItemSnapshot(st, Node(o)) : o \in TreeNodes(st.arr)}

ItemTargets(st) == ModelTargets(st) \cup {Null, SnMap}

\* a well-formed array snapshot holds every model id at most once
WellFormedItems(items) ==
    \A i, j \in 1 .. Len(items) :
        (i # j /\ items[i].kind = "model" /\ items[j].kind = "model")
            => items[i].id # items[j].id

ArrayTargets(st) ==
    {SnArray(Ext, items) :
        items \in {s \in UNION {[1 .. n -> ItemTargets(st)] : n \in 0 .. MaxLen} :
                      WellFormedItems(s)}}

PrimTargets == {Null, Prim("1")}
UnsupportedTargets == {SnMap, SnSet, SnOther}

\* the snapshots a call on `value` is given: an array snapshot only for the
\* array, a model snapshot only for a slot value
TargetsFor(st, value) ==
    PrimTargets \cup UnsupportedTargets
    \cup (IF value = Node(ArrId)
          THEN ArrayTargets(st) \cup {getSnapshot(st, value)}
          ELSE ModelTargets(st))

Values(st) == {Node(ArrId), Undefined} \cup {Node(o) : o \in TreeNodes(st.arr)}

\* the model ids a snapshot names
IdsIn(sn) ==
    IF sn.kind = "model" THEN {sn.id}
    ELSE IF sn.kind = "array"
    THEN {sn.items[i].id : i \in {j \in 1 .. Len(sn.items) : sn.items[j].kind = "model"}}
    ELSE {}

\* a pool holds models of the tree, and every tree model the snapshot names:
\* the pool of the whole tree or, for a call on a slot value, the pool of the
\* named models only
Pools(st, value, sn) ==
    IF value = Node(ArrId) THEN {TreeNodes(st.arr)}
    ELSE {TreeNodes(st.arr),
          {o \in TreeNodes(st.arr) : st.models[o].id \in IdsIn(sn)}}

\* the parent handed to a call: none for the root array
ParentsFor(value) ==
    IF value = Node(ArrId) THEN {Undefined} ELSE {Undefined, Node(ArrId)}

(***************************************************************************)
(* Mutations made by application code (spec 4.1) and model identity.        *)
(***************************************************************************)
\* the type of the value-type class model of the documentation (Color): it
\* declares no id property
ValueType == "V"
NoId == ""
isValueType(st, value) == isModel(value) /\ st.models[value.o].type = ValueType

\* clone(value): a new node with the type and the data of the original
clone(st, value) == fromSnapshot(st, getItemSnapshot(st, value))

\* The result of a write into the array by application code: the tweaker
\* attaches newValue under the array at `key` (key = length + 1: a push).
\* attaches the very node that already has a parent
attach_Shares(st, key, newValue) ==
    IF key = Len(st.arr) + 1
    THEN Return(push(st, newValue, "caller"), newValue, <<>>)
    ELSE Return(set(st, ArrId, key, newValue, "caller"), newValue, <<>>)

attach(st, key, newValue) ==
    LET write(s, v) ==
            IF key = Len(s.arr) + 1 THEN push(s, v, "caller")
            ELSE set(s, ArrId, key, v, "caller")
    IN IF isModel(newValue)
          /\ fastGetParentPathIncludingDataObjects(st, newValue) # NoParent
          /\ (key = Len(st.arr) + 1 \/ st.arr[key] # newValue)
       THEN IF isValueType(st, newValue)
            THEN LET c == clone(st, newValue)
                 IN IF c.st.oom THEN c
                    ELSE Return(write(c.st, c.ret), c.ret, <<>>)
            ELSE Throw(st, "two parents", <<>>)
       ELSE Return(write(st, newValue), newValue, <<>>)

\* the snapshots application code builds new instances from
NewInstances(st) ==
    {SnModel(Ext, ModelType, id, "2") :
        id \in {i \in ModelIds : \A o \in TreeNodes(st.arr) : st.models[o].id # i}}
    \cup {SnModel(Ext, ValueType, NoId, "2")}

(***************************************************************************)
(* The runtime type-checking layer (TypeChecker, lines 80-310).             *)
(*                                                                          *)
(* The tracked objects form a tree of their own: every object has one       *)
(* primitive field v and its child objects as further properties.           *)
(***************************************************************************)
\* tracked objects
MaxObjs == 3
\* cap of the history counters
MaxRuns == 2

Objs == 1 .. MaxObjs
NoObj == 0
Obj(o) == [kind |-> "obj", o |-> o]
\* isTweakedObject(value, true) of ../tweaker/core
isTweakedObject(x) == x.kind = "obj"

\* the property under which a child object hangs in its parent
KeyOf(o) == <<"k1", "k2", "k3", "k4", "k5">>[o]
ContentVals == {"1", "x"}

\* line 90
emptyPath == <<>>
\* the paths callers hand to check
BasePaths == {emptyPath, <<"p">>}

\* check results: null, a TypeCheckError, undefined (no cache entry); Threw
\* stands for an exception leaving the call
Pass == [kind |-> "null"]
NotCached == [kind |-> "undefined"]
Threw == [kind |-> "threw"]
TypeCheckError(path, expectedTypeName, actualValue) ==
    [kind |-> "error", path |-> path, expectedTypeName |-> expectedTypeName,
     actualValue |-> actualValue]

\* the TypeChecker instances: two constructed with a validation function, one
\* constructed with null
Checkers == {"number", "string", "unchecked"}
HasCheckFunction(c) == c # "unchecked"

\* line 231: this.unchecked = !_check
\* every checker counts as checked
unchecked_Never(c) == FALSE

unchecked(c) == ~HasCheckFunction(c)

\* what the validation function of a checker accepts as field v
Valid(c, p) == IF c = "number" THEN p = "1" ELSE p = "x"

Children(par, o) == {x \in Objs : par[x] = o}

\* a set of objects as a sequence in ascending order
RECURSIVE Ascending(_)
Ascending(S) ==
    IF S = {} THEN <<>>
    ELSE LET m == CHOOSE x \in S : \A y \in S : x <= y
         IN <<m>> \o Ascending(S \ {m})

Bump(n) == IF n < MaxRuns THEN n + 1 ELSE n

\* lines 162-176
\* keeps only the checker that cached last as listener of the object
setCachedResult_SingleListener(st, c, obj, newCacheValue) ==
    [st EXCEPT !.checkResultCache[c][obj] = newCacheValue,
               !.listeners[obj] = {c}]

setCachedResult(st, c, obj, newCacheValue) ==
    [st EXCEPT !.checkResultCache[c][obj] = newCacheValue,
               !.listeners[obj] = @ \cup {c}]

\* lines 178-180
invalidateCachedResult(st, c, obj) ==
    [st EXCEPT !.checkResultCache[c][obj] = NotCached]

\* lines 182-184
\* never finds an entry
getCachedResult_Never(st, c, obj) == NotCached

getCachedResult(st, c, obj) == st.checkResultCache[c][obj]

\* line 201: the path handed to the validation function on a cache miss
\* hands it the caller's path
CachePath_CallerPath(path) == path

CachePath(path) == emptyPath

RECURSIVE check(_, _, _, _)
RECURSIVE checkProps(_, _, _, _)

\* the validation function a checker was constructed with (this._check): the
\* field v first, then every child object in property order, each through
\* check of the same (recursive) type.  Calling the null function of an
\* unchecked checker throws.
CheckFunction(st, c, value, path) ==
    IF ~HasCheckFunction(c) THEN [st |-> st, result |-> Threw]
    ELSE IF isPrimitive(value)
    THEN [st |-> st,
          result |-> IF Valid(c, value.p) THEN Pass
                     ELSE TypeCheckError(path, c, value)]
    ELSE LET st1 == [st EXCEPT !.checkRuns[c][value.o] = Bump(@)]
             v == st.content[value.o]
         IN IF ~Valid(c, v)
            THEN [st |-> st1,
                  result |-> TypeCheckError(Append(path, "v"), c, Prim(v))]
            ELSE checkProps(st1, c, Ascending(Children(st.parentOf, value.o)), path)

checkProps(st, c, kids, path) ==
    IF kids = <<>> THEN [st |-> st, result |-> Pass]
    ELSE LET r == check(st, c, Obj(Head(kids)), Append(path, KeyOf(Head(kids))))
         IN IF r.result # Pass THEN r
            ELSE checkProps(r.st, c, Tail(kids), path)

\* caches the passing result of an unchecked checker instead of returning
check_CachesUnchecked(st, c, value, path) ==
    IF isTweakedObject(value) /\ unchecked(c)
    THEN [st |-> setCachedResult(st, c, value.o, Pass), result |-> Pass]
    ELSE IF ~isTweakedObject(value) /\ ~unchecked(c)
    THEN CheckFunction(st, c, value, path)
    ELSE [st |-> st, result |-> Pass]

\* lines 186-214
check(st, c, value, path) ==
    IF unchecked(c) THEN [st |-> st, result |-> Pass]
    ELSE IF ~isTweakedObject(value) THEN CheckFunction(st, c, value, path)
    ELSE LET hit == getCachedResult(st, c, value.o)
             r == IF hit = NotCached
                  THEN LET f == CheckFunction(st, c, value, CachePath(path))
                       IN IF f.result = Threw THEN f
                          ELSE [st |-> setCachedResult(f.st, c, value.o, f.result),
                                result |-> f.result]
                  ELSE [st |-> st, result |-> hit]
         IN IF r.result.kind = "error"
            THEN [st |-> r.st,
                  result |-> TypeCheckError(path \o r.result.path,
                                            r.result.expectedTypeName,
                                            r.result.actualValue)]
            ELSE r

\* the validation function run on the current content, with no cache at all
RECURSIVE UncachedCheck(_, _, _, _, _)
RECURSIVE UncachedProps(_, _, _, _, _)
UncachedCheck(par, cont, c, value, path) ==
    IF isPrimitive(value)
    THEN IF Valid(c, value.p) THEN Pass ELSE TypeCheckError(path, c, value)
    ELSE IF ~Valid(c, cont[value.o])
    THEN TypeCheckError(Append(path, "v"), c, Prim(cont[value.o]))
    ELSE UncachedProps(par, cont, c, Ascending(Children(par, value.o)), path)

UncachedProps(par, cont, c, kids, path) ==
    IF kids = <<>> THEN Pass
    ELSE LET r == UncachedCheck(par, cont, c, Obj(Head(kids)),
                                Append(path, KeyOf(Head(kids))))
         IN IF r # Pass THEN r ELSE UncachedProps(par, cont, c, Tail(kids), path)

\* lines 121-135
\* the objects marked dirty by a mutation of obj: obj and its ancestors
RECURSIVE Chain(_, _)
Chain(par, obj) == IF obj = NoObj THEN <<>> ELSE <<obj>> \o Chain(par, par[obj])

RECURSIVE invalidateCachedTypeCheckerResult(_, _)
RECURSIVE invalidateEach(_, _, _)
\* the checkers of the listener set, one after the other (lines 127-129)
invalidateEach(st, typeCheckerSet, current) ==
    IF typeCheckerSet = {} THEN st
    ELSE LET typeChecker == CHOOSE c \in typeCheckerSet : TRUE
         IN invalidateEach(invalidateCachedResult(st, typeChecker, current),
                           typeCheckerSet \ {typeChecker}, current)

\* stops at the object itself
invalidateCachedTypeCheckerResult_NoWalk(st, obj) ==
    [invalidateEach(st, st.listeners[obj], obj)
        EXCEPT !.listeners[obj] = {},
               !.checkRuns = [c \in Checkers |-> [@[c] EXCEPT ![obj] = 0]]]

\* drops the cached results of every object
invalidateCachedTypeCheckerResult_DropsAll(st, obj) ==
    [st EXCEPT !.checkResultCache = [c \in Checkers |-> [o \in Objs |-> NotCached]],
               !.listeners = [o \in Objs |-> {}],
               !.checkRuns = [c \in Checkers |-> [o \in Objs |-> 0]],
               !.visited = Chain(st.parentOf, obj)]

\* goes through the loop body a second time for the object it starts from
invalidateCachedTypeCheckerResult_Twice(st, obj) ==
    [st EXCEPT !.checkResultCache =
                   [c \in Checkers |->
                       [o \in Objs |->
                           IF \E i \in 1 .. Len(Chain(st.parentOf, obj)) :
                                  Chain(st.parentOf, obj)[i] = o
                           THEN NotCached ELSE @[c][o]]],
               !.listeners =
                   [o \in Objs |->
                       IF \E i \in 1 .. Len(Chain(st.parentOf, obj)) :
                              Chain(st.parentOf, obj)[i] = o
                       THEN {} ELSE @[o]],
               !.visited = <<obj>> \o Chain(st.parentOf, obj)]

\* lines 121-135; visited is the history of the loop: the value of current
\* in each run of the loop body
invalidateCachedTypeCheckerResult(st, obj) ==
    IF obj = NoObj THEN st
    ELSE LET current == obj
             typeCheckerSet == st.listeners[current]
             st1 == IF typeCheckerSet # {}
                    THEN [invalidateEach(st, typeCheckerSet, current)
                             EXCEPT !.listeners[current] = {}]
                    ELSE st
             st2 == [st1 EXCEPT !.checkRuns =
                        [c \in Checkers |-> [@[c] EXCEPT ![current] = 0]],
                                !.visited = Append(@, current)]
         IN invalidateCachedTypeCheckerResult(st2, st.parentOf[current])

(***************************************************************************)
(* Snapshot processors of a TypeChecker (lines 235-270) and their           *)
(* invalidation (lines 145-152).                                            *)
(***************************************************************************)
\* no entry in a WeakMap (has() is false), as opposed to an entry whose value
\* is undefined
NoEntry == [kind |-> "absent"]

\* typeof sn === "object" && sn !== null
isObjectInput(sn) == sn.kind = "obj"

\* the processors a checker was constructed with (this._fromSnapshotProcessor,
\* this._toSnapshotProcessor): pure functions of what the input holds when
\* they run; the "to" processor of the number checker yields undefined for
\* an object whose field is "x"
FromProcessor(c, cont, sn) ==
    IF isObjectInput(sn) THEN [kind |-> "in", by |-> c, v |-> cont[sn.o]] ELSE sn
ToProcessor(c, cont, sn) ==
    IF ~isObjectInput(sn) THEN sn
    ELSE IF c = "number" /\ cont[sn.o] = "x" THEN Undefined
    ELSE [kind |-> "out", by |-> c, v |-> cont[sn.o]]

\* lines 235-239
\* keeps the result per input object and returns it on the next call
fromSnapshotProcessor_Cached(st, c, sn) ==
    IF isObjectInput(sn) /\ st.toSnapshotProcessorCache[c][sn.o] # NoEntry
    THEN [st |-> st, result |-> st.toSnapshotProcessorCache[c][sn.o]]
    ELSE IF isObjectInput(sn)
    THEN [st |-> [st EXCEPT !.toSnapshotProcessorCache[c][sn.o] =
                      FromProcessor(c, st.content, sn)],
          result |-> FromProcessor(c, st.content, sn)]
    ELSE [st |-> st, result |-> FromProcessor(c, st.content, sn)]

fromSnapshotProcessor(st, c, sn) ==
    [st |-> st, result |-> FromProcessor(c, st.content, sn)]

\* line 253: this._toSnapshotProcessorCache.has(sn)
\* takes an entry whose value is undefined for no entry
hasCachedOutput_Defined(st, c, obj) ==
    st.toSnapshotProcessorCache[c][obj] \notin {NoEntry, Undefined}

hasCachedOutput(st, c, obj) == st.toSnapshotProcessorCache[c][obj] # NoEntry

\* lines 243-245
invalidateSnapshotProcessorCachedResult(st, c, obj) ==
    [st EXCEPT !.toSnapshotProcessorCache[c][obj] = NoEntry]

\* lines 247-270
toSnapshotProcessor(st, c, sn) ==
    IF ~isObjectInput(sn)
    THEN [st |-> st, result |-> ToProcessor(c, st.content, sn)]
    ELSE IF hasCachedOutput(st, c, sn.o)
    THEN [st |-> st, result |-> st.toSnapshotProcessorCache[c][sn.o]]
    ELSE LET val == ToProcessor(c, st.content, sn)
         IN [st |-> [st EXCEPT !.toRuns[c][sn.o] = Bump(@),
                               !.toSnapshotProcessorCache[c][sn.o] = val,
                               !.processorListeners[sn.o] = @ \cup {c}],
             result |-> val]

\* lines 145-152
RECURSIVE forEachInvalidate(_, _, _)
forEachInvalidate(st, typeCheckerSet, obj) ==
    IF typeCheckerSet = {} THEN st
    ELSE LET typeChecker == CHOOSE c \in typeCheckerSet : TRUE
         IN forEachInvalidate(invalidateSnapshotProcessorCachedResult(st, typeChecker, obj),
                              typeCheckerSet \ {typeChecker}, obj)

\* goes on to the ancestors of obj
invalidateCachedToSnapshotProcessorResult_Walks(st, obj) ==
    LET chain == {Chain(st.parentOf, obj)[i] : i \in 1 .. Len(Chain(st.parentOf, obj))}
    IN [st EXCEPT !.toSnapshotProcessorCache =
                      [c \in Checkers |->
                          [o \in Objs |-> IF o \in chain THEN NoEntry ELSE @[c][o]]],
                  !.processorListeners =
                      [o \in Objs |-> IF o \in chain THEN {} ELSE @[o]],
                  !.toRuns =
                      [c \in Checkers |->
                          [o \in Objs |-> IF o \in chain THEN 0 ELSE @[c][o]]]]

invalidateCachedToSnapshotProcessorResult(st, obj) ==
    LET typeCheckerSet == st.processorListeners[obj]
        st1 == IF typeCheckerSet # {}
               THEN [forEachInvalidate(st, typeCheckerSet, obj) EXCEPT !.processorListeners[obj] = {}]
               ELSE st
    IN [st1 EXCEPT !.toRuns = [c \in Checkers |-> [@[c] EXCEPT ![obj] = 0]]]

RECURSIVE invalidateProcessorsOf(_, _)
invalidateProcessorsOf(st, objs) ==
    IF objs = <<>> THEN st
    ELSE invalidateProcessorsOf(
             invalidateCachedToSnapshotProcessorResult(st, Head(objs)), Tail(objs))

\* the tweaker's mutation hook: the cached check results of the mutated
\* object and its ancestors and the cached processor outputs of every object
\* marked dirty are invalidated
markDirty(st, obj) ==
    invalidateProcessorsOf(invalidateCachedTypeCheckerResult(st, obj),
                           Chain(st.parentOf, obj))

\* the field of a tracked object is written
setField(st, obj, p) == markDirty([st EXCEPT !.content[obj] = p], obj)

\* the objects of the subtree of obj
RECURSIVE Subtree(_, _)
Subtree(par, obj) ==
    {obj} \cup UNION {Subtree(par, x) : x \in Children(par, obj)}

\* a tracked object is taken out of its parent (a mutation of the old parent)
\* and attached under newParent (a mutation of the new one); NoObj as new
\* parent leaves it detached
move(st, obj, newParent) ==
    LET old == st.parentOf[obj]
        st1 == IF old # NoObj THEN markDirty([st EXCEPT !.parentOf[obj] = NoObj], old)
               ELSE st
    IN IF newParent = NoObj THEN st1
       ELSE markDirty([st1 EXCEPT !.parentOf[obj] = newParent], newParent)

(***************************************************************************)
(* The late type checker (lines 287-310).                                   *)
(***************************************************************************)
NoChecker == [kind |-> "none"]
\* the deferred function: every evaluation builds a new TypeChecker instance
fn(evaluations) == [kind |-> "checker", instance |-> evaluations + 1]

\* evaluates the function on every call
ltc_NoMemo(st) ==
    LET r == fn(st.fnCalls)
    IN [st |-> [st EXCEPT !.lateCached = r, !.fnCalls = Bump(@)], result |-> r]

\* lines 289-296
ltc(st) ==
    IF st.lateCached # NoChecker THEN [st |-> st, result |-> st.lateCached]
    ELSE LET r == fn(st.fnCalls)
         IN [st |-> [st EXCEPT !.lateCached = r, !.fnCalls = Bump(@)], result |-> r]

(***************************************************************************)
(* The state of the type layer.                                             *)
(***************************************************************************)
NoOp == [op |-> "none", c |-> "", value |-> Undefined, path |-> emptyPath,
         result |-> NotCached, hit |-> FALSE, prev |-> NotCached]

TypesInit ==
    /\ parentOf = [o \in Objs |-> o - 1]
    /\ content = [o \in Objs |-> "1"]
    /\ checkResultCache = [c \in Checkers |-> [o \in Objs |-> NotCached]]
    /\ typeCheckersWithCachedResultsOfObject = [o \in Objs |-> {}]
    /\ toSnapshotProcessorCache = [c \in Checkers |-> [o \in Objs |-> NoEntry]]
    /\ typeCheckersWithCachedSnapshotProcessorResultsOfObject = [o \in Objs |-> {}]
    /\ lateCached = NoChecker
    /\ checkRuns = [c \in Checkers |-> [o \in Objs |-> 0]]
    /\ toRuns = [c \in Checkers |-> [o \in Objs |-> 0]]
    /\ fnCalls = 0
    /\ last = NoOp

TypeState ==
    [parentOf |-> parentOf, content |-> content,
     checkResultCache |-> checkResultCache,
     listeners |-> typeCheckersWithCachedResultsOfObject,
     toSnapshotProcessorCache |-> toSnapshotProcessorCache,
     processorListeners |-> typeCheckersWithCachedSnapshotProcessorResultsOfObject,
     lateCached |-> lateCached, checkRuns |-> checkRuns, toRuns |-> toRuns,
     fnCalls |-> fnCalls, visited |-> <<>>]

\* the type layer moves to state st; l is the operation that was made
Commit(st, l) ==
    /\ parentOf' = st.parentOf
    /\ content' = st.content
    /\ checkResultCache' = st.checkResultCache
    /\ typeCheckersWithCachedResultsOfObject' = st.listeners
    /\ toSnapshotProcessorCache' = st.toSnapshotProcessorCache
    /\ typeCheckersWithCachedSnapshotProcessorResultsOfObject' = st.processorListeners
    /\ lateCached' = st.lateCached
    /\ checkRuns' = st.checkRuns
    /\ toRuns' = st.toRuns
    /\ fnCalls' = st.fnCalls
    /\ last' = l
    /\ UNCHANGED <<treeVars, propVars, transformVars>>

(***************************************************************************)
(* Model properties (packages/lib/src/modelShared/prop.ts).                 *)
(*                                                                          *)
(* A property descriptor is an immutable object; props holds the            *)
(* descriptors created so far, in creation order.                           *)
(***************************************************************************)
\* descriptors created
MaxProps == 3

\* line 9
noDefaultValue == [kind |-> "noDefaultValue"]
\* a member that an object literal does not have
Absent == [kind |-> "absent"]

\* a function handed in by the caller, as the steps it applies in order
Fn(steps) == [kind |-> "fn", steps |-> steps]
\* the steps "f" and "g" leave their mark on the value; "-f" and "-g" are
\* their inverses: they take the mark of their step off the value, and leave
\* a mark of their own on a value their step did not mark last
Inverses == [f |-> "-f", g |-> "-g"]
ApplyStep(sn, step) ==
    IF step \in DOMAIN Inverses THEN Append(sn, step)
    ELSE IF /\ sn # <<>>
            /\ sn[Len(sn)] \in DOMAIN Inverses
            /\ Inverses[sn[Len(sn)]] = step
    THEN SubSeq(sn, 1, Len(sn) - 1)
    ELSE Append(sn, step)
\* what a function returns for sn: its steps applied in order
RECURSIVE ApplySteps(_, _)
ApplySteps(sn, steps) ==
    IF steps = <<>> THEN sn ELSE ApplySteps(ApplyStep(sn, Head(steps)), Tail(steps))
ApplyFn(f, sn) == ApplySteps(sn, f.steps)
\* the snapshots handed to the processors
ProcessorArgs == {<<>>, <<"x">>}
\* the processors callers hand to withSnapshotProcessor
UserProcessors == {Fn(<<"f">>), Fn(<<"g">>)}
\* the inverse of a processor of one step
InverseOf(f) == Fn(<<Inverses[f.steps[1]]>>)
\* the toSnapshot functions handed in: the processors and their inverses
UserToProcessors == UserProcessors \cup {InverseOf(f) : f \in UserProcessors}

\* a default value generator: every call builds a new value
DefaultGenerator == [kind |-> "generator"]
Generated(n) == [kind |-> "generated", instance |-> n]

\* the arguments of prop(): none, a generator, a primitive, undefined
NoArgument == [kind |-> "noArgument"]
PropArguments == {NoArgument, DefaultGenerator, Prim("10"), Undefined}

\* lines 411-473: the full transform built from a transform object
toFullTransform(transformObject) == [kind |-> "fullTransform", of |-> transformObject]

\* lines 327-357: the descriptor prop(def) builds
prop(def) ==
    LET hasDefaultValue == def # NoArgument
        isDefFn == def = DefaultGenerator
    IN [defaultFn |-> IF hasDefaultValue /\ isDefFn THEN def ELSE noDefaultValue,
        defaultValue |-> IF hasDefaultValue /\ ~isDefFn THEN def ELSE noDefaultValue,
        typeChecker |-> Undefined,
        setter |-> "false",
        isId |-> FALSE,
        transform |-> Undefined,
        fromSnapshotProcessor |-> Undefined,
        toSnapshotProcessor |-> Undefined]

\* lines 241-246: idProp has the members setter and isId only
idProp ==
    [defaultFn |-> Absent,
     defaultValue |-> Absent,
     typeChecker |-> Absent,
     setter |-> "false",
     isId |-> TRUE,
     transform |-> Absent,
     fromSnapshotProcessor |-> Absent,
     toSnapshotProcessor |-> Absent]

\* the modes handed to withSetter: none, true, false, "assign"
SetterModes == {"undefined", "true", "false", "assign"}

\* Each modifier returns [this, ret]: the receiver as the call leaves it and
\* the descriptor it returns.
\* lines 359-361 and 247-249
\* writes the flag into the receiver and returns the receiver
withSetter_InPlace(this, mode) ==
    LET changed == [this EXCEPT !.setter = IF mode = "undefined" THEN "true" ELSE mode]
    IN [this |-> changed, ret |-> changed]

withSetter(this, mode) ==
    [this |-> this,
     ret |-> [this EXCEPT !.setter = IF mode = "undefined" THEN "true" ELSE mode]]

\* lines 363-365
withTransform(this, transform) ==
    [this |-> this, ret |-> [this EXCEPT !.transform = toFullTransform(transform)]]

\* lines 373 and 385: the function built from the one the receiver has
\* (oldFn) and the one passed (newFn)
\* applies the old function first on the way in
ComposeFrom_OldFirst(oldFn, newFn) == Fn(oldFn.steps \o newFn.steps)

\* sn => oldFn(newFn(sn))
ComposeFrom(oldFn, newFn) == Fn(newFn.steps \o oldFn.steps)

\* applies the new function first on the way out
ComposeTo_NewFirst(oldFn, newFn) == Fn(newFn.steps \o oldFn.steps)

\* sn => newFn(oldFn(sn))
ComposeTo(oldFn, newFn) == Fn(oldFn.steps \o newFn.steps)

\* lines 367-400
\* keeps the toSnapshot the receiver has
withSnapshotProcessor_KeepsOldTo(this, fromSnapshotFn, toSnapshotFn) ==
    LET newFromSnapshot ==
            IF this.fromSnapshotProcessor.kind = "fn" /\ fromSnapshotFn.kind = "fn"
            THEN ComposeFrom(this.fromSnapshotProcessor, fromSnapshotFn)
            ELSE IF fromSnapshotFn.kind = "fn" THEN fromSnapshotFn
            ELSE this.fromSnapshotProcessor
        newToSnapshot ==
            IF this.toSnapshotProcessor.kind = "fn" THEN this.toSnapshotProcessor
            ELSE toSnapshotFn
    IN [this |-> this,
        ret |-> [this EXCEPT !.fromSnapshotProcessor = newFromSnapshot,
                             !.toSnapshotProcessor = newToSnapshot]]

withSnapshotProcessor(this, fromSnapshotFn, toSnapshotFn) ==
    LET newFromSnapshot ==
            IF this.fromSnapshotProcessor.kind = "fn" /\ fromSnapshotFn.kind = "fn"
            THEN ComposeFrom(this.fromSnapshotProcessor, fromSnapshotFn)
            ELSE IF fromSnapshotFn.kind = "fn" THEN fromSnapshotFn
            ELSE this.fromSnapshotProcessor
        newToSnapshot ==
            IF this.toSnapshotProcessor.kind = "fn" /\ toSnapshotFn.kind = "fn"
            THEN ComposeTo(this.toSnapshotProcessor, toSnapshotFn)
            ELSE IF toSnapshotFn.kind = "fn" THEN toSnapshotFn
            ELSE this.toSnapshotProcessor
    IN [this |-> this,
        ret |-> [this EXCEPT !.fromSnapshotProcessor = newFromSnapshot,
                             !.toSnapshotProcessor = newToSnapshot]]

\* lines 478-488; calls counts the calls of generators made so far
\* hands out the value the first call of the generator built
getModelPropDefaultValue_Memo(propData, calls) ==
    IF propData.defaultFn # noDefaultValue
    THEN [calls |-> IF calls = 0 THEN 1 ELSE calls, ret |-> Generated(1)]
    ELSE IF propData.defaultValue # noDefaultValue
    THEN [calls |-> calls, ret |-> propData.defaultValue]
    ELSE [calls |-> calls, ret |-> noDefaultValue]

getModelPropDefaultValue(propData, calls) ==
    IF propData.defaultFn # noDefaultValue
    THEN [calls |-> calls + 1, ret |-> Generated(calls + 1)]
    ELSE IF propData.defaultValue # noDefaultValue
    THEN [calls |-> calls, ret |-> propData.defaultValue]
    ELSE [calls |-> calls, ret |-> noDefaultValue]

NoPropOp == [op |-> "none", this |-> 0, ret |-> 0, arg |-> Undefined,
             arg2 |-> Undefined, result |-> Undefined, before |-> 0]

PropsInit ==
    /\ props = <<>>
    /\ generatorCalls = 0
    /\ propLast = NoPropOp
    /\ layers = <<>>

(***************************************************************************)
(* Property transforms (prop.ts, toFullTransform).                          *)
(***************************************************************************)
\* deepest nesting of untransform calls
MaxDepth == 2

\* lines 412-415 and 431-432: the keys of the caches, <<full transform, model,
\* property name>>: the property a of the model m1 has the full transform T1
\* and its property b the full transform T2
TransformKeys == {<<"T1", "m1", "a">>, <<"T2", "m1", "b">>}

\* the values stored in a property and the values its transform shows
OriginalValues == {Prim("o1"), Prim("o2")}
TransformedValues == {Prim("t1"), Prim("t2")}

\* lines 418 and 422: value == null
IsNullish(value) == value \in {Null, Undefined}

\* lines 445-448 and 466: the entry a cache keeps for a property
CacheEntry(originalValue, transformedValue) ==
    [originalValue |-> originalValue, transformedValue |-> transformedValue]

\* the entry is handed on whatever original value it was stored for
propCacheFor_Stale(propCache, originalValue) == propCache

\* lines 431-437: the entry of the property, dropped when it was stored for
\* another original value
propCacheFor(propCache, originalValue) ==
    IF propCache = NoEntry THEN NoEntry
    ELSE IF propCache.originalValue # originalValue THEN NoEntry
    ELSE propCache

\* lines 417-419 and 439-443: the user's transform is called, with the
\* transformed value of the entry, unless the original value is null or
\* undefined; userResult is what the user's transform returns
transformCall(originalValue, propCache, userResult) ==
    IF IsNullish(originalValue)
    THEN [userCalled |-> FALSE, handed |-> Undefined,
          transformedValue |-> originalValue]
    ELSE [userCalled |-> TRUE,
          handed |-> IF propCache = NoEntry THEN Undefined
                     ELSE propCache.transformedValue,
          transformedValue |-> userResult]

\* lines 424-453: transform(originalValue, model, propName, setOriginalValue)
FullTransform_transform(cacheOf, key, originalValue, userResult) ==
    LET propCache == propCacheFor(cacheOf[key], originalValue)
        c == transformCall(originalValue, propCache, userResult)
    IN [cache |-> [cacheOf EXCEPT
                     ![key] = CacheEntry(originalValue, c.transformedValue)],
        call |-> c]

\* lines 465-469: the end of untransform, decided by the module-level flag
untransformStore(cacheOf, key, flag, originalValue, transformedValue) ==
    IF flag
    THEN [cacheOf EXCEPT ![key] = CacheEntry(originalValue, transformedValue)]
    ELSE [cacheOf EXCEPT ![key] = NoEntry]

NoTransformOp ==
    [op |-> "none", key |-> <<>>, originalValue |-> Undefined,
     transformedValue |-> Undefined, handed |-> Undefined, userCalled |-> FALSE,
     called |-> FALSE, pre |-> NoEntry]

TransformInit ==
    /\ transformCache = [k \in TransformKeys |-> NoEntry]
    /\ cacheTransformResult = FALSE
    /\ untransforms = <<>>
    /\ transformLast = NoTransformOp

(***************************************************************************)
(* Actions.                                                                 *)
(***************************************************************************)
NoOutcome == [status |-> "none", ret |-> Undefined, err |-> "", tried |-> <<>>]

Init ==
    /\ arr = <<Node(1), Node(2)>>
    /\ models = [o \in NodeIds |->
                    IF o = 1 THEN [live |-> TRUE, type |-> ModelType, id |-> "1", v |-> "1"]
                    ELSE IF o = 2 THEN [live |-> TRUE, type |-> ModelType, id |-> "2", v |-> "2"]
                    ELSE FreeCell]
    /\ dirty = {}
    /\ patches = <<>>
    /\ reconcilers = <<>>
    /\ pc = "idle"
    /\ call = [op |-> "none", key |-> 0, oldValue |-> Undefined,
               value |-> Undefined, sn |-> Undefined, pool |-> {}, parent |-> Undefined,
               preArr |-> <<>>, preModels |-> [o \in NodeIds |-> FreeCell],
               preRegs |-> <<>>]
    /\ pending = <<>>
    /\ fin = [outcome |-> NoOutcome, models |-> [o \in NodeIds |-> FreeCell]]
    /\ outcome = NoOutcome
    /\ TypesInit
    /\ PropsInit
    /\ TransformInit

\* the state a call starts from
StartState ==
    [arr |-> arr, models |-> Collect(arr, models, {}), dirty |-> {}, steps |-> <<>>,
     reconcilers |-> reconcilers, oom |-> FALSE]

\* reconcileSnapshot(value, sn, modelPool, parent) is called
Begin(value, sn, modelPool, parent) ==
    LET r == reconcileSnapshot(StartState, value, sn, modelPool, parent)
    IN /\ pc = "idle"
       /\ ~r.st.oom
       /\ pc' = "running"
       /\ call' = [op |-> "reconcileSnapshot", key |-> 0, oldValue |-> Undefined,
                   value |-> value, sn |-> sn, pool |-> modelPool, parent |-> parent,
                   preArr |-> arr, preModels |-> StartState.models,
                   preRegs |-> reconcilers]
       /\ models' = StartState.models
       /\ dirty' = {}
       /\ patches' = <<>>
       /\ reconcilers' = r.st.reconcilers
       /\ pending' = r.st.steps
       /\ fin' = [outcome |-> [status |-> IF r.err = "" THEN "returned" ELSE "threw",
                               ret |-> r.ret, err |-> r.err, tried |-> r.tried],
                  models |-> r.st.models]
       /\ outcome' = NoOutcome
       /\ UNCHANGED arr
       /\ UNCHANGED <<typeVars, propVars, transformVars>>

\* the next mutation of the running call reaches the tree and its observers
Mutate ==
    /\ pc = "running"
    /\ pending # <<>>
    /\ arr' = Head(pending).arr
    /\ models' = Head(pending).models
    /\ dirty' = Head(pending).dirty
    /\ patches' = Append(patches, Head(pending).mut)
    /\ pending' = Tail(pending)
    /\ UNCHANGED <<reconcilers, pc, call, fin, outcome>>
    /\ UNCHANGED <<typeVars, propVars, transformVars>>

\* the call returns or throws
End ==
    /\ pc = "running"
    /\ pending = <<>>
    /\ pc' = "done"
    /\ outcome' = fin.outcome
    /\ models' = Collect(arr, fin.models,
                         IF isModel(fin.outcome.ret) THEN {fin.outcome.ret.o} ELSE {})
    /\ UNCHANGED <<arr, dirty, patches, reconcilers, call, pending, fin>>
    /\ UNCHANGED <<typeVars, propVars, transformVars>>

\* the calling turn ends: the caller drops the arguments and the result
NoCall ==
    [op |-> "none", key |-> 0, oldValue |-> Undefined, value |-> Undefined,
     sn |-> Undefined, pool |-> {}, parent |-> Undefined,
     preArr |-> <<>>, preModels |-> [o \in NodeIds |-> FreeCell], preRegs |-> <<>>]
NoFin == [outcome |-> NoOutcome, models |-> [o \in NodeIds |-> FreeCell]]

Turn ==
    /\ pc = "done"
    /\ pc' = "idle"
    /\ arr' = RenumberedArr(arr)
    /\ models' = RenumberedModels(arr, models)
    /\ dirty' = {}
    /\ patches' = <<>>
    /\ call' = NoCall
    /\ fin' = NoFin
    /\ outcome' = NoOutcome
    /\ UNCHANGED <<reconcilers, pending>>
    /\ UNCHANGED <<typeVars, propVars, transformVars>>

\* a call with the default reconcilers only
Reconcile ==
    /\ pc = "idle"
    /\ \E value \in Values(StartState) :
          \E sn \in TargetsFor(StartState, value) :
              \E modelPool \in Pools(StartState, value, sn) :
                  \E parent \in ParentsFor(value) :
                      Begin(value, sn, modelPool, parent)

Next == Reconcile \/ Mutate \/ End \/ Turn

Spec == Init /\ [][Next]_vars

(***************************************************************************)
(* Calls with reconcilers registered by other callers.                      *)
(***************************************************************************)
CustomCount(regs) ==
    Cardinality({i \in 1 .. Len(regs) : regs[i].reconciler \in CustomReconcilers})

\* registerReconciler(priority, reconciler) is called
Register ==
    /\ pc = "idle"
    /\ CustomCount(reconcilers) < MaxCustom
    /\ \E priority \in Priorities :
          \E reconciler \in CustomReconcilers :
              reconcilers' = registerReconciler(reconcilers, priority, reconciler)
    /\ UNCHANGED <<arr, models, dirty, patches, pc, call, pending, fin, outcome>>
    /\ UNCHANGED <<typeVars, propVars, transformVars>>

RegistryTargets(st, value) ==
    PrimTargets \cup UnsupportedTargets
    \cup (IF value = Node(ArrId)
          THEN {getSnapshot(st, value), SnArray(Ext, <<>>), SnArray(Ext, <<SnMap>>)}
          ELSE {})

ReconcileWithRegistry ==
    /\ pc = "idle"
    /\ \E value \in {Node(ArrId), Undefined} :
          \E sn \in RegistryTargets(StartState, value) :
              Begin(value, sn, TreeNodes(arr), Undefined)

NextReg == Register \/ ReconcileWithRegistry \/ Mutate \/ End \/ Turn

SpecReg == Init /\ [][NextReg]_vars

(***************************************************************************)
(* Operations of the type-checking layer.                                   *)
(***************************************************************************)
\* the values handed to check: primitives (untracked) and tracked objects
CheckValues == {Prim(p) : p \in ContentVals} \cup {Obj(o) : o \in Objs}

\* the caller is done with the result of the last operation; the next
\* operation starts from here
Forget ==
    /\ last.op # "none"
    /\ last' = NoOp
    /\ UNCHANGED <<parentOf, content, checkResultCache,
                   typeCheckersWithCachedResultsOfObject, toSnapshotProcessorCache,
                   typeCheckersWithCachedSnapshotProcessorResultsOfObject, lateCached,
                   checkRuns, toRuns, fnCalls>>
    /\ UNCHANGED <<treeVars, propVars, transformVars>>

\* checker.check(value, path) is called
Check ==
    /\ last.op = "none"
    /\ \E c \in Checkers : \E value \in CheckValues : \E path \in BasePaths :
        LET r == check(TypeState, c, value, path)
        IN Commit(r.st,
                  [NoOp EXCEPT !.op = "check", !.c = c, !.value = value,
                               !.path = path, !.result = r.result,
                               !.hit = /\ isTweakedObject(value)
                                       /\ checkResultCache[c][value.o] # NotCached])

\* some checker holds a cached check result for object o
HasCachedResult(o) == \E c \in Checkers : checkResultCache[c][o] # NotCached

\* invalidateCachedTypeCheckerResult(obj) is called; hit tells whether obj
\* and every ancestor of it had a cached result, prev the listeners of obj
\* and the objects the loop went through
InvalidateTypeCheck ==
    /\ last.op = "none"
    /\ \E o \in Objs :
        Commit(invalidateCachedTypeCheckerResult(TypeState, o),
               [NoOp EXCEPT !.op = "invalidate", !.value = Obj(o),
                            !.hit = \A i \in 1 .. Len(Chain(parentOf, o)) :
                                        HasCachedResult(Chain(parentOf, o)[i]),
                            !.prev = [kind |-> "listeners",
                                      of |-> typeCheckersWithCachedResultsOfObject[o],
                                      visited |->
                                          invalidateCachedTypeCheckerResult(
                                              TypeState, o).visited]])

\* the field of a tracked object is assigned another value
SetField ==
    /\ last.op = "none"
    /\ \E o \in Objs : \E p \in ContentVals \ {content[o]} :
        Commit(setField(TypeState, o, p),
               [NoOp EXCEPT !.op = "set", !.value = Obj(o)])

\* the objects that change place: the others stay where Init puts them
Movable == {MaxObjs - 1, MaxObjs}

\* a tracked object is moved to another place of the tree, or detached
Move ==
    /\ last.op = "none"
    /\ \E o \in Movable :
        \E p \in (Objs \cup {NoObj}) \ (Subtree(parentOf, o) \cup {parentOf[o]}) :
            Commit(move(TypeState, o, p),
                   [NoOp EXCEPT !.op = "move", !.value = Obj(o)])

NextTypes == Check \/ InvalidateTypeCheck \/ SetField \/ Move \/ Forget

SpecTypes == Init /\ [][NextTypes]_vars

(***************************************************************************)
(* Operations on the snapshot processors and on the late type checker.      *)
(***************************************************************************)
\* the checkers whose processors are called
ProcessorCheckers == {"number", "unchecked"}
\* the inputs handed to a processor: objects, null and a primitive
ProcessorInputs == {Obj(o) : o \in Objs} \cup {Null, Prim("1")}

\* checker.fromSnapshotProcessor(sn) is called; prev is what the call before
\* returned for the same input, when the caller changed the input since
FromSnapshot ==
    /\ last.op \in {"none", "mutated"}
    /\ \E c \in ProcessorCheckers : \E sn \in ProcessorInputs :
          LET r == fromSnapshotProcessor(TypeState, c, sn)
          IN Commit(r.st,
                    [NoOp EXCEPT !.op = "from", !.c = c, !.value = sn,
                                 !.result = r.result,
                                 !.prev = IF /\ last.op = "mutated"
                                             /\ last.c = c
                                             /\ last.value = sn
                                          THEN last.result ELSE NotCached])

\* the caller changes the object it handed to fromSnapshotProcessor: a plain
\* object of its own, with no hook of the tree involved (an object the "to"
\* pipeline holds an output for belongs to a node and changes through the
\* node only)
CallerMutates ==
    /\ last.op = "from"
    /\ isObjectInput(last.value)
    /\ typeCheckersWithCachedSnapshotProcessorResultsOfObject[last.value.o] = {}
    /\ \E p \in ContentVals \ {content[last.value.o]} :
          Commit([TypeState EXCEPT !.content[last.value.o] = p],
                 [last EXCEPT !.op = "mutated"])

\* checker.toSnapshotProcessor(sn) is called
ToSnapshot ==
    /\ last.op = "none"
    /\ \E c \in ProcessorCheckers : \E sn \in ProcessorInputs :
          LET r == toSnapshotProcessor(TypeState, c, sn)
          IN Commit(r.st,
                    [NoOp EXCEPT !.op = "to", !.c = c, !.value = sn,
                                 !.result = r.result,
                                 !.hit = /\ isObjectInput(sn)
                                         /\ toSnapshotProcessorCache[c][sn.o] # NoEntry])

\* invalidateCachedToSnapshotProcessorResult(obj) is called; prev is the
\* listener set of obj before the call
InvalidateToSnapshot ==
    /\ last.op = "none"
    /\ \E o \in Objs :
          Commit(invalidateCachedToSnapshotProcessorResult(TypeState, o),
                 [NoOp EXCEPT
                     !.op = "invalidateTo", !.value = Obj(o),
                     !.prev = [kind |-> "listeners",
                               of |-> typeCheckersWithCachedSnapshotProcessorResultsOfObject[o]]])

\* the late type checker is called
CallLate ==
    /\ last.op = "none"
    /\ LET r == ltc(TypeState)
       IN Commit(r.st, [NoOp EXCEPT !.op = "late", !.result = r.result,
                                    !.hit = lateCached # NoChecker])

NextProcessors ==
    \/ FromSnapshot
    \/ CallerMutates
    \/ ToSnapshot
    \/ InvalidateToSnapshot
    \/ SetField
    \/ CallLate
    \/ Forget

SpecProcessors == Init /\ [][NextProcessors]_vars

(***************************************************************************)
(* Operations of application code on the tree.                              *)
(***************************************************************************)
\* an operation of application code starts from state st0 and runs as r: its
\* mutations reach the tree one per step, as those of a reconcileSnapshot call
BeginOp(c, st0, r) ==
    /\ pc = "idle"
    /\ ~st0.oom
    /\ ~r.st.oom
    /\ pc' = "running"
    /\ call' = [c EXCEPT !.preArr = arr, !.preModels = st0.models,
                         !.preRegs = reconcilers]
    /\ models' = st0.models
    /\ dirty' = {}
    /\ patches' = <<>>
    /\ pending' = r.st.steps
    /\ fin' = [outcome |-> [status |-> IF r.err = "" THEN "returned" ELSE "threw",
                            ret |-> r.ret, err |-> r.err, tried |-> r.tried],
               models |-> r.st.models]
    /\ outcome' = NoOutcome
    /\ UNCHANGED <<arr, reconcilers>>
    /\ UNCHANGED <<typeVars, propVars, transformVars>>

\* the values application code writes into the array: null, a node of the
\* tree, or a new instance
Written(st) ==
    {[st |-> st, value |-> Null]}
    \cup {[st |-> st, value |-> Node(o)] : o \in TreeNodes(st.arr)}
    \cup {[st |-> fromSnapshot(st, sn).st, value |-> fromSnapshot(st, sn).ret] :
             sn \in NewInstances(st)}

\* node.v = v
SetV ==
    /\ pc = "idle"
    /\ \E o \in TreeNodes(arr) : \E v \in FieldVals :
          BeginOp([NoCall EXCEPT !.op = "setV", !.value = Node(o)], StartState,
                  Return(set(StartState, o, 0, Prim(v), "caller"), Undefined, <<>>))

\* this.$modelId = id inside a model action; ids are unique among the models
WriteId ==
    /\ pc = "idle"
    /\ \E o \in TreeNodes(arr) : \E id \in ModelIds :
          /\ models[o].type = ModelType
          /\ \A p \in TreeNodes(arr) : models[p].id # id
          /\ BeginOp([NoCall EXCEPT !.op = "writeId", !.value = Node(o)], StartState,
                     Return(setId(StartState, o, id, "caller"), Undefined, <<>>))

\* array[key] = value, or array.push(value) for key = length + 1
Attach ==
    /\ pc = "idle"
    /\ \E w \in Written(StartState) :
          \E key \in 1 .. (IF Len(arr) < MaxLen THEN Len(arr) + 1 ELSE Len(arr)) :
              BeginOp([NoCall EXCEPT !.op = "attach", !.value = w.value, !.key = key],
                      w.st, attach(w.st, key, w.value))

\* array.splice(len): the tail is removed
Splice ==
    /\ pc = "idle"
    /\ \E len \in 0 .. (Len(arr) - 1) :
          BeginOp([NoCall EXCEPT !.op = "splice", !.key = len + 1], StartState,
                  Return(splice(StartState, len, "caller"), Undefined, <<>>))

\* a model action that makes two mutations: node.v = v, then array.splice(len)
Edit ==
    /\ pc = "idle"
    /\ \E o \in TreeNodes(arr) : \E v \in FieldVals : \E len \in 0 .. (Len(arr) - 1) :
          BeginOp([NoCall EXCEPT !.op = "edit", !.value = Node(o), !.key = len + 1],
                  StartState,
                  Return(splice(set(StartState, o, 0, Prim(v), "caller"), len, "caller"),
                         Undefined, <<>>))

\* detachIfNeeded(newValue, oldValue, modelPool) is called
Detach ==
    /\ pc = "idle"
    /\ \E w \in Written(StartState) :
          \E oldValue \in {Undefined} \cup {arr[i] : i \in 1 .. Len(arr)} :
              \E modelPool \in {{}, TreeNodes(arr),
                                IF isModel(w.value) THEN {w.value.o} ELSE {}} :
                  BeginOp([NoCall EXCEPT !.op = "detachIfNeeded", !.value = w.value,
                                         !.oldValue = oldValue, !.pool = modelPool],
                          w.st,
                          Return(detachIfNeeded(w.st, w.value, oldValue, modelPool),
                                 Undefined, <<>>))

\* reconcileSnapshot is called on a slot value with a model snapshot
ReconcileNode ==
    /\ pc = "idle"
    /\ \E value \in Values(StartState) \ {Node(ArrId)} :
          \E sn \in ModelTargets(StartState) :
              \E modelPool \in Pools(StartState, value, sn) :
                  Begin(value, sn, modelPool, Node(ArrId))

NextTree ==
    \/ SetV
    \/ WriteId
    \/ Attach
    \/ Splice
    \/ Edit
    \/ Detach
    \/ ReconcileNode
    \/ Mutate
    \/ End
    \/ Turn

SpecTree == Init /\ [][NextTree]_vars

(***************************************************************************)
(* Operations on model properties.                                          *)
(***************************************************************************)
\* the caller is done with the result of the last operation on properties
ForgetProp ==
    /\ propLast.op # "none"
    /\ propLast' = NoPropOp
    /\ UNCHANGED <<props, generatorCalls, layers>>
    /\ UNCHANGED <<treeVars, typeVars, transformVars>>

\* a modifier was called on descriptor i and returned r
Modified(i, r, l) ==
    /\ props' = Append([props EXCEPT ![i] = r.this], r.ret)
    /\ layers' = Append(layers,
                        IF l.op = "withSnapshotProcessor"
                        THEN Append(layers[i], [from |-> l.arg, to |-> l.arg2])
                        ELSE layers[i])
    /\ propLast' = [l EXCEPT !.this = i, !.ret = Len(props) + 1]
    /\ UNCHANGED generatorCalls
    /\ UNCHANGED <<treeVars, typeVars, transformVars>>

\* prop(), prop(defaultFn) or prop(defaultValue) is called
Prop ==
    /\ propLast.op = "none"
    /\ Len(props) < MaxProps
    /\ \E def \in PropArguments :
          /\ props' = Append(props, prop(def))
          /\ layers' = Append(layers, <<>>)
          /\ propLast' = [NoPropOp EXCEPT !.op = "prop", !.arg = def,
                                          !.ret = Len(props) + 1]
    /\ UNCHANGED generatorCalls
    /\ UNCHANGED <<treeVars, typeVars, transformVars>>

\* a model is declared with idProp
IdProp ==
    /\ propLast.op = "none"
    /\ Len(props) < MaxProps
    /\ props' = Append(props, idProp)
    /\ layers' = Append(layers, <<>>)
    /\ propLast' = [NoPropOp EXCEPT !.op = "idProp", !.ret = Len(props) + 1]
    /\ UNCHANGED generatorCalls
    /\ UNCHANGED <<treeVars, typeVars, transformVars>>

\* descriptor.withSetter(mode) is called
WithSetter ==
    /\ propLast.op = "none"
    /\ Len(props) < MaxProps
    /\ \E i \in 1 .. Len(props) : \E mode \in SetterModes :
          Modified(i, withSetter(props[i], mode),
                   [NoPropOp EXCEPT !.op = "withSetter", !.arg = Prim(mode)])

\* descriptor.withTransform(transform) is called (idProp has no such member)
WithTransform ==
    /\ propLast.op = "none"
    /\ Len(props) < MaxProps
    /\ \E i \in 1 .. Len(props) :
          /\ ~props[i].isId
          /\ Modified(i, withTransform(props[i], "t"),
                      [NoPropOp EXCEPT !.op = "withTransform", !.arg = Prim("t")])

\* descriptor.withSnapshotProcessor({ fromSnapshot, toSnapshot }) is called
WithSnapshotProcessor ==
    /\ propLast.op = "none"
    /\ Len(props) < MaxProps
    /\ \E i \in 1 .. Len(props) :
          \E fromSnapshotFn \in UserProcessors \cup {Undefined} :
              \E toSnapshotFn \in UserToProcessors \cup {Undefined} :
                  /\ ~props[i].isId
                  /\ Modified(i, withSnapshotProcessor(props[i], fromSnapshotFn, toSnapshotFn),
                              [NoPropOp EXCEPT !.op = "withSnapshotProcessor",
                                               !.arg = fromSnapshotFn,
                                               !.arg2 = toSnapshotFn])

\* getModelPropDefaultValue(descriptor) is called; before is the number of
\* generator calls made before it
GetDefault ==
    /\ propLast.op = "none"
    /\ generatorCalls < MaxRuns
    /\ \E i \in 1 .. Len(props) :
          /\ ~props[i].isId
          /\ LET r == getModelPropDefaultValue(props[i], generatorCalls)
             IN /\ generatorCalls' = r.calls
                /\ propLast' = [NoPropOp EXCEPT !.op = "getDefault", !.this = i,
                                                !.result = r.ret,
                                                !.before = generatorCalls]
    /\ UNCHANGED <<props, layers>>
    /\ UNCHANGED <<treeVars, typeVars, transformVars>>

\* the "from" processor of a descriptor is applied to a snapshot
ApplyFrom ==
    /\ propLast.op = "none"
    /\ \E i \in 1 .. Len(props) : \E sn \in ProcessorArgs :
          /\ props[i].fromSnapshotProcessor.kind = "fn"
          /\ propLast' = [NoPropOp EXCEPT
                             !.op = "from", !.this = i, !.arg = Fn(sn),
                             !.result = Fn(ApplyFn(props[i].fromSnapshotProcessor, sn))]
    /\ UNCHANGED <<props, generatorCalls, layers>>
    /\ UNCHANGED <<treeVars, typeVars, transformVars>>

\* the "to" processor of a descriptor is applied to a snapshot
ApplyTo ==
    /\ propLast.op = "none"
    /\ \E i \in 1 .. Len(props) : \E sn \in ProcessorArgs :
          /\ props[i].toSnapshotProcessor.kind = "fn"
          /\ propLast' = [NoPropOp EXCEPT
                             !.op = "to", !.this = i, !.arg = Fn(sn),
                             !.result = Fn(ApplyFn(props[i].toSnapshotProcessor, sn))]
    /\ UNCHANGED <<props, generatorCalls, layers>>
    /\ UNCHANGED <<treeVars, typeVars, transformVars>>

NextProps ==
    \/ Prop
    \/ IdProp
    \/ WithSetter
    \/ WithTransform
    \/ WithSnapshotProcessor
    \/ GetDefault
    \/ ApplyFrom
    \/ ApplyTo
    \/ ForgetProp

SpecProps == Init /\ [][NextProps]_vars

(***************************************************************************)
(* Operations on property transforms.                                      *)
(***************************************************************************)
\* the caller is done with the result of the last call
ForgetTransform ==
    /\ transformLast.op # "none"
    /\ transformLast' = NoTransformOp
    /\ UNCHANGED <<transformCache, cacheTransformResult, untransforms>>
    /\ UNCHANGED <<treeVars, typeVars, propVars>>

\* lines 424-453: transform is called, at the top level or from inside a
\* user's untransform, and returns
Transform ==
    /\ transformLast.op = "none"
    /\ \E key \in TransformKeys, originalValue \in OriginalValues \cup {Null, Undefined},
          userResult \in TransformedValues :
          LET r == FullTransform_transform(transformCache, key, originalValue,
                                           userResult)
          IN /\ transformCache' = r.cache
             /\ transformLast' =
                   [NoTransformOp EXCEPT
                      !.op = "transform", !.key = key,
                      !.originalValue = originalValue,
                      !.transformedValue = r.call.transformedValue,
                      !.handed = r.call.handed,
                      !.userCalled = r.call.userCalled,
                      !.pre = transformCache[key]]
    /\ UNCHANGED <<cacheTransformResult, untransforms>>
    /\ UNCHANGED <<treeVars, typeVars, propVars>>

\* lines 456-463: untransform is called with a transformed value, at the top
\* level or from inside a user's untransform; the flag is reset and the
\* user's untransform starts
UntransformEnter ==
    /\ transformLast.op = "none"
    /\ Len(untransforms) < MaxDepth
    /\ \E key \in TransformKeys, transformedValue \in TransformedValues :
          untransforms' =
             Append(untransforms,
                    [key |-> key, transformedValue |-> transformedValue,
                     called |-> FALSE])
    /\ cacheTransformResult' = FALSE
    /\ UNCHANGED <<transformCache, transformLast>>
    /\ UNCHANGED <<treeVars, typeVars, propVars>>

\* lines 406-408: the user's untransform running innermost calls
\* cacheTransformedValue
CacheTransformedValue ==
    /\ transformLast.op = "none"
    /\ untransforms # <<>>
    /\ cacheTransformResult' = TRUE
    /\ untransforms' = [untransforms EXCEPT ![Len(untransforms)].called = TRUE]
    /\ UNCHANGED <<transformCache, transformLast>>
    /\ UNCHANGED <<treeVars, typeVars, propVars>>

\* lines 464-471: the user's untransform running innermost returns
\* originalValue and untransform stores or removes the entry
UntransformReturn ==
    /\ transformLast.op = "none"
    /\ untransforms # <<>>
    /\ \E originalValue \in OriginalValues :
          LET c == untransforms[Len(untransforms)]
          IN /\ transformCache' =
                   untransformStore(transformCache, c.key, cacheTransformResult,
                                    originalValue, c.transformedValue)
             /\ transformLast' =
                   [NoTransformOp EXCEPT
                      !.op = "untransform", !.key = c.key,
                      !.originalValue = originalValue,
                      !.transformedValue = c.transformedValue,
                      !.userCalled = TRUE, !.called = c.called,
                      !.pre = transformCache[c.key]]
    /\ untransforms' = SubSeq(untransforms, 1, Len(untransforms) - 1)
    /\ UNCHANGED cacheTransformResult
    /\ UNCHANGED <<treeVars, typeVars, propVars>>

\* lines 456-471 with 421-423: untransform of null or undefined, at the top
\* level or from inside a user's untransform: the flag is reset, the user's
\* untransform is not called and the value is returned as it is
UntransformNullish ==
    /\ transformLast.op = "none"
    /\ \E key \in TransformKeys, transformedValue \in {Null, Undefined} :
          /\ transformCache' =
                untransformStore(transformCache, key, FALSE, transformedValue,
                                 transformedValue)
          /\ transformLast' =
                [NoTransformOp EXCEPT
                   !.op = "untransform", !.key = key,
                   !.originalValue = transformedValue,
                   !.transformedValue = transformedValue,
                   !.pre = transformCache[key]]
    /\ cacheTransformResult' = FALSE
    /\ UNCHANGED untransforms
    /\ UNCHANGED <<treeVars, typeVars, propVars>>

NextTransform ==
    \/ Transform
    \/ UntransformEnter
    \/ CacheTransformedValue
    \/ UntransformReturn
    \/ UntransformNullish
    \/ ForgetTransform

SpecTransform == Init /\ [][NextTransform]_vars

(***************************************************************************)
(* Properties.                                                              *)
(***************************************************************************)
\* the tree before the call and the tree now, as getSnapshot reads them
PreState == [arr |-> call.preArr, models |-> call.preModels, dirty |-> {}]
PostState == [arr |-> arr, models |-> models, dirty |-> dirty]

Called == pc \in {"running", "done"}

\* the snapshot passed is the object getSnapshot(value) returned before the call
SnIsCurrentSnapshot ==
    /\ ~isPrimitive(call.value)
    /\ ~isPrimitive(call.sn)
    /\ getSnapshot(PreState, call.value).ref = call.sn.ref

\* all the mutations of the call, observed or still to come
Muts == patches \o [i \in 1 .. Len(pending) |-> pending[i].mut]

Untouched ==
    /\ Muts = <<>>
    /\ arr = call.preArr
    /\ models = call.preModels
    /\ dirty = {}

\* C1: reconciling a live node against its own current snapshot returns the
\* node itself, invokes no reconciler, mutates no node and emits no patch.
C1_ReconcileIdempotence ==
    (Called /\ SnIsCurrentSnapshot) =>
        /\ fin.outcome.status = "returned"
        /\ fin.outcome.ret = call.value
        /\ fin.outcome.tried = <<>>
        /\ fin.models = call.preModels
        /\ Untouched

C1_Witness ==
    /\ pc = "done"
    /\ SnIsCurrentSnapshot
    /\ call.value = Node(ArrId)
    /\ Len(call.preArr) = 2
    /\ outcome.ret = Node(ArrId)

\* a live node and a snapshot of its declared shape
SameShape ==
    \/ call.value = Node(ArrId) /\ call.sn.kind = "array"
    \/ isModel(call.value) /\ call.sn.kind = "model"

\* C2: the value a call returns for a live node and a well-formed snapshot of
\* its shape has a snapshot that deep-equals the snapshot passed.
C2_ReconcileConvergence ==
    (pc = "done" /\ SameShape /\ outcome.status = "returned") =>
        DeepEquals(getSnapshot(PostState, outcome.ret), call.sn)

C2_Witness ==
    /\ pc = "done"
    /\ outcome.status = "returned"
    /\ call.value = Node(ArrId)
    /\ call.sn.kind = "array"
    /\ ~DeepEquals(getSnapshot(PreState, call.value), call.sn)
    /\ Len(patches) >= 3

\* C4: a primitive snapshot is returned as it is, whatever the value, the pool
\* and the parent; no reconciler is invoked and nothing changes.
C4_PrimitiveSnapshot ==
    (Called /\ isPrimitive(call.sn)) =>
        /\ fin.outcome.status = "returned"
        /\ fin.outcome.ret = call.sn
        /\ fin.outcome.tried = <<>>
        /\ fin.models = call.preModels
        /\ reconcilers = call.preRegs
        /\ Untouched

C4_Witness ==
    /\ pc = "done"
    /\ call.sn = Null
    /\ isModel(call.value)
    /\ call.pool # {}
    /\ call.parent = Node(ArrId)
    /\ outcome.ret = Null

\* the instance the pool holds for a model snapshot, before the call
Pooled(sn) == findModelByTypeAndId(PreState, call.pool, sn.type, sn.id)

LiveNodes(ms) == {o \in NodeIds : ms[o].live}

\* C5: a model snapshot whose (type, id) is in the pool is reconciled to the
\* pooled instance itself, wherever it sits, and no instance is constructed
\* for it.
C5_IdentityPreservation ==
    (pc = "done" /\ outcome.status = "returned") =>
        /\ (call.sn.kind = "model" /\ Pooled(call.sn) # NoModel) =>
              /\ outcome.ret = Node(Pooled(call.sn))
              /\ models[Pooled(call.sn)].id = call.sn.id
              /\ LiveNodes(fin.models) = LiveNodes(call.preModels)
        /\ call.sn.kind = "array" =>
              \A i \in 1 .. Len(call.sn.items) :
                  (call.sn.items[i].kind = "model"
                   /\ Pooled(call.sn.items[i]) # NoModel) =>
                      /\ arr[i] = Node(Pooled(call.sn.items[i]))
                      /\ models[Pooled(call.sn.items[i])].id = call.sn.items[i].id
                      /\ \A o \in LiveNodes(fin.models) \ LiveNodes(call.preModels) :
                            fin.models[o].id # call.sn.items[i].id

C5_Witness ==
    /\ pc = "done"
    /\ outcome.status = "returned"
    /\ call.sn.kind = "model"
    /\ isModel(call.value)
    /\ Pooled(call.sn) # NoModel
    /\ outcome.ret # call.value
    /\ outcome.ret = Node(Pooled(call.sn))

\* the reorder scenario: two model nodes, the snapshot lists the second one
\* unchanged first and then the first one with another field value
ReorderScenario ==
    /\ call.value = Node(ArrId)
    /\ Len(call.preArr) = 2
    /\ isModel(call.preArr[1])
    /\ isModel(call.preArr[2])
    /\ call.pool = TreeNodes(call.preArr)
    /\ call.sn.kind = "array"
    /\ call.sn.ref = Ext
    /\ Len(call.sn.items) = 2
    /\ call.sn.items[1] = [getItemSnapshot(PreState, call.preArr[2]) EXCEPT !.ref = Ext]
    /\ call.sn.items[2].kind = "model"
    /\ call.sn.items[2].ref = Ext
    /\ call.sn.items[2].id = call.preModels[call.preArr[1].o].id
    /\ call.sn.items[2].v # call.preModels[call.preArr[1].o].v

\* C6: in the reorder scenario the array holds the same two instances in
\* swapped order, the first node has the new field value and the second
\* node's snapshot is the object it was before the call.
C6_ReorderScenario ==
    (pc = "done" /\ ReorderScenario) =>
        /\ outcome.status = "returned"
        /\ outcome.ret = Node(ArrId)
        /\ arr = <<call.preArr[2], call.preArr[1]>>
        /\ models[call.preArr[1].o].v = call.sn.items[2].v
        /\ models[call.preArr[2].o] = call.preModels[call.preArr[2].o]
        /\ getSnapshot(PostState, call.preArr[2])
              = getSnapshot(PreState, call.preArr[2])
        /\ LiveNodes(fin.models) = LiveNodes(call.preModels)

C6_Witness ==
    /\ pc = "done"
    /\ ReorderScenario
    /\ call.preModels[1] = [live |-> TRUE, type |-> ModelType, id |-> "1", v |-> "1"]
    /\ call.preModels[2] = [live |-> TRUE, type |-> ModelType, id |-> "2", v |-> "2"]
    /\ call.sn.items[2].v = "9"
    /\ arr = <<Node(2), Node(1)>>

IsAttach(m, o) == m.obj = ArrId /\ m.op \in {"set", "push"} /\ m.new = Node(o)
IsDetach(m, o) ==
    /\ m.obj = ArrId
    /\ m.op = "set"
    /\ m.by = "detachIfNeeded"
    /\ m.old = Node(o)
    /\ m.new = Null

\* C7: in every state, also between the mutations of a relocation, a node
\* sits in at most one slot, and a node is attached only when it sits in none.
C7_SingleParent ==
    /\ \A o \in NodeIds : Cardinality(SlotsOf(arr, o)) <= 1
    /\ \A j \in 1 .. Len(patches) : \A o \in NodeIds :
          IsAttach(patches[j], o) => SlotsOf(patches[j].pre, o) = {}

\* a relocation in progress: the node is detached and not yet attached
C7_Witness ==
    /\ pc = "running"
    /\ patches # <<>>
    /\ \E o \in NodeIds :
          /\ IsDetach(patches[Len(patches)], o)
          /\ SlotsOf(call.preArr, o) # {}
          /\ SlotsOf(arr, o) = {}
          /\ IsAttach(Head(pending).mut, o)

C3_RuleOrder ==
    pc = "done" =>
        LET t == outcome.tried
        IN /\ isPrimitive(call.sn) => (t = <<>> /\ outcome.ret = call.sn)
           /\ SnIsCurrentSnapshot => (t = <<>> /\ outcome.ret = call.value)
           /\ \A k \in 1 .. Len(t) :
                 /\ t[k].index = k
                 /\ k <= Len(reconcilers)
                 /\ t[k].reconciler = reconcilers[k].reconciler
                 /\ t[k].priority = reconcilers[k].priority
                 /\ k < Len(t) => (~t[k].claimed /\ t[k].priority <= t[k + 1].priority)
           /\ (~isPrimitive(call.sn) /\ ~SnIsCurrentSnapshot) =>
                 /\ outcome.status = "returned" =>
                       /\ t # <<>>
                       /\ t[Len(t)].claimed
                       /\ \A i \in (Len(t) + 1) .. Len(reconcilers) :
                             reconcilers[i].priority >= t[Len(t)].priority
                 /\ (outcome.status = "threw" /\ ~t[Len(t)].claimed) =>
                       Len(t) = Len(reconcilers)
                 /\ t # <<>>

\* two reconcilers would claim the snapshot; the one of lower priority number
\* decided and the other was not invoked
C3_Witness ==
    /\ pc = "done"
    /\ call.sn.kind = "array"
    /\ outcome.status = "returned"
    /\ Len(outcome.tried) = 1
    /\ outcome.tried[1].reconciler = "c1"
    /\ outcome.ret = Prim("c1")
    /\ \E i \in 2 .. Len(reconcilers) : reconcilers[i].reconciler = "array"

\* a registered reconciler claims snapshots of this kind
Claimed(sn) ==
    \E i \in 1 .. Len(reconcilers) :
        /\ reconcilers[i].reconciler \in CustomReconcilers
        /\ sn.kind \in CustomClaims(reconcilers[i].reconciler)

\* C9: a Map or Set snapshot that is not the value's current snapshot and that
\* no registered reconciler claims makes the call fail with the message for
\* maps or for sets.
C9_MapSetFailure ==
    (pc = "done" /\ call.sn \in {SnMap, SnSet}
     /\ ~SnIsCurrentSnapshot /\ ~Claimed(call.sn)) =>
        /\ outcome.status = "threw"
        /\ outcome.ret = Undefined
        /\ isMap(call.sn) => outcome.err = "a snapshot must not contain maps"
        /\ isSet(call.sn) => outcome.err = "a snapshot must not contain sets"

C9_Witness ==
    /\ pc = "done"
    /\ call.sn = SnMap
    /\ CustomCount(reconcilers) > 0
    /\ ~Claimed(call.sn)
    /\ Len(outcome.tried) = Len(reconcilers)
    /\ outcome.err = "a snapshot must not contain maps"

\* C10 as stated: every call whose snapshot is a Map or a Set fails, whatever
\* reconcilers are registered.
C10_MapSetAlwaysFails ==
    (pc = "done" /\ call.sn \in {SnMap, SnSet}) => outcome.status = "threw"

\* the first registry entry that claims snapshots of this kind
FirstClaiming(sn) ==
    CHOOSE i \in 1 .. Len(reconcilers) :
        /\ reconcilers[i].reconciler \in CustomReconcilers
        /\ sn.kind \in CustomClaims(reconcilers[i].reconciler)
        /\ \A j \in 1 .. (i - 1) :
              ~(reconcilers[j].reconciler \in CustomReconcilers
                /\ sn.kind \in CustomClaims(reconcilers[j].reconciler))

\* C10 amended: a call whose snapshot is a Map or a Set fails with the message
\* for maps or for sets whatever the value is, unless a registered reconciler
\* claims it: then the call returns what the first such reconciler returns.
\* With the default reconcilers only, it always fails.
C10_MapSetFailsUnlessClaimed ==
    (pc = "done" /\ call.sn \in {SnMap, SnSet}) =>
        IF Claimed(call.sn)
        THEN /\ outcome.status = "returned"
             /\ outcome.ret = Prim(reconcilers[FirstClaiming(call.sn)].reconciler)
             /\ outcome.tried[Len(outcome.tried)].index = FirstClaiming(call.sn)
        ELSE /\ outcome.status = "threw"
             /\ outcome.err = (IF isMap(call.sn)
                               THEN "a snapshot must not contain maps"
                               ELSE "a snapshot must not contain sets")

C10_Witness ==
    /\ pc = "done"
    /\ call.sn = SnSet
    /\ call.value = Node(ArrId)
    /\ Claimed(call.sn)
    /\ outcome.status = "returned"
    /\ outcome.ret = Prim("c2")

\* C11: a completed call has either returned or thrown; when the snapshot is
\* not primitive, is not the value's current snapshot, is neither a Map nor a
\* Set and every registry entry declined it, the call throws the 'unsupported
\* snapshot' failure after trying the whole registry; a call on a snapshot
\* that is not primitive never returns undefined.
C11_UnsupportedSnapshot ==
    pc = "done" =>
        /\ outcome.status \in {"returned", "threw"}
        /\ (outcome.status = "returned" /\ ~isPrimitive(call.sn)) =>
              outcome.ret # Undefined
        /\ (/\ ~isPrimitive(call.sn)
            /\ ~SnIsCurrentSnapshot
            /\ ~isMap(call.sn) /\ ~isSet(call.sn)
            /\ \A k \in 1 .. Len(outcome.tried) : ~outcome.tried[k].claimed) =>
              /\ outcome.status = "threw"
              /\ outcome.err = "unsupported snapshot"
              /\ outcome.ret = Undefined
              /\ Len(outcome.tried) = Len(reconcilers)

\* an object of unknown shape is declined by the default reconcilers and by
\* a reconciler another caller registered
C11_Witness ==
    /\ pc = "done"
    /\ call.sn = SnOther
    /\ call.value = Node(ArrId)
    /\ CustomCount(reconcilers) > 0
    /\ Len(outcome.tried) = Len(reconcilers)
    /\ Len(reconcilers) >= 3
    /\ outcome.err = "unsupported snapshot"

(***************************************************************************)
(* Properties of the type-checking layer.                                   *)
(***************************************************************************)
\* the object and its ancestors, as a set
Ancestry(o) == {Chain(parentOf, o)[i] : i \in 1 .. Len(Chain(parentOf, o))}

CheckedCheckers == {c \in Checkers : HasCheckFunction(c)}

\* C12: between two invalidations of a tracked object the validation
\* function of a checked checker runs at most once for it, whatever paths
\* check is called with and whether the result is a pass or an error: it has
\* run exactly when a result is cached, a check that finds no cached result
\* runs it, and an invalidation leaves no cached result, so that the next
\* check runs it again.
C12_CheckCacheCoherence ==
    /\ \A c \in CheckedCheckers : \A o \in Objs :
          /\ checkRuns[c][o] <= 1
          /\ checkRuns[c][o] = 1 <=> checkResultCache[c][o] # NotCached
    /\ (last.op = "check" /\ last.c \in CheckedCheckers /\ isTweakedObject(last.value)) =>
          /\ checkRuns[last.c][last.value.o] = 1
          /\ checkResultCache[last.c][last.value.o] # NotCached
    /\ last.op = "invalidate" =>
          \A c \in CheckedCheckers :
              /\ checkRuns[c][last.value.o] = 0
              /\ checkResultCache[c][last.value.o] = NotCached

\* a cached error is returned again under another path, without a second run,
\* while another checker holds a pass for the same object
C12_Witness ==
    /\ last.op = "check"
    /\ last.hit
    /\ last.path = <<"p">>
    /\ last.result.kind = "error"
    /\ checkRuns[last.c][last.value.o] = 1
    /\ \E c \in CheckedCheckers : checkResultCache[c][last.value.o] = Pass

\* C13: check on a tracked object returns the cached error with the caller's
\* path put in front of its path, and the cached entry keeps the path
\* relative to the object; every result is the one the validation function
\* gives when it is run without any cache on the caller's path.
C13_PathPrefix ==
    /\ \A c \in CheckedCheckers : \A o \in Objs :
          checkResultCache[c][o] # NotCached =>
              checkResultCache[c][o] =
                  UncachedCheck(parentOf, content, c, Obj(o), emptyPath)
    /\ (last.op = "check" /\ last.c \in CheckedCheckers) =>
          /\ last.result =
                UncachedCheck(parentOf, content, last.c, last.value, last.path)
          /\ (isTweakedObject(last.value) /\ last.result.kind = "error") =>
                LET cached == checkResultCache[last.c][last.value.o]
                IN /\ cached.kind = "error"
                   /\ last.result.path = last.path \o cached.path
                   /\ last.result.expectedTypeName = cached.expectedTypeName
                   /\ last.result.actualValue = cached.actualValue
          /\ (isTweakedObject(last.value) /\ last.result = Pass) =>
                checkResultCache[last.c][last.value.o] = Pass

\* a cache hit under the path <<"p">> on an error found in a child object
C13_Witness ==
    /\ last.op = "check"
    /\ last.hit
    /\ last.path = <<"p">>
    /\ last.result.kind = "error"
    /\ Len(checkResultCache[last.c][last.value.o].path) >= 2
    /\ last.result.path = <<"p">> \o checkResultCache[last.c][last.value.o].path

\* C14: after invalidateCachedTypeCheckerResult(n) no checker holds a cached
\* check result for n or for any ancestor of n up to the root, and none is
\* left as listener of these objects.
C14_InvalidationReachesAncestors ==
    last.op = "invalidate" =>
        \A a \in Ancestry(last.value.o) :
            /\ \A c \in Checkers : checkResultCache[c][a] = NotCached
            /\ typeCheckersWithCachedResultsOfObject[a] = {}

\* n has a parent and a grandparent, all three had a cached result
C14_Witness ==
    /\ last.op = "invalidate"
    /\ last.hit
    /\ Cardinality(Ancestry(last.value.o)) >= 3
    /\ \A a \in Ancestry(last.value.o) : ~HasCachedResult(a)

\* C15: every checker that holds a cached result for an object is in the
\* listener set of the object, so that one invalidation of the object removes
\* the cached result in every checker.
C15_EveryCheckerNotified ==
    /\ \A c \in Checkers : \A o \in Objs :
          checkResultCache[c][o] # NotCached =>
              c \in typeCheckersWithCachedResultsOfObject[o]
    /\ last.op = "invalidate" => ~HasCachedResult(last.value.o)

\* two checkers had a cached result for the object that was invalidated
C15_Witness ==
    /\ last.op = "invalidate"
    /\ last.prev.of = {"number", "string"}
    /\ ~HasCachedResult(last.value.o)

\* C16: a checker constructed without validation function returns null from
\* check for every value and path and never has a cache entry or a listener
\* registration.
C16_UncheckedAlwaysPasses ==
    /\ \A c \in Checkers \ CheckedCheckers : \A o \in Objs :
          /\ checkResultCache[c][o] = NotCached
          /\ c \notin typeCheckersWithCachedResultsOfObject[o]
          /\ checkRuns[c][o] = 0
    /\ (last.op = "check" /\ last.c \notin CheckedCheckers) => last.result = Pass

\* a tracked object that the checked checkers reject or have cached
C16_Witness ==
    /\ last.op = "check"
    /\ last.c = "unchecked"
    /\ isTweakedObject(last.value)
    /\ last.path = <<"p">>
    /\ last.result = Pass
    /\ HasCachedResult(last.value.o)

\* C17: check completes for every value and path and returns null or a
\* TypeCheckError; a mismatch is a returned value, never an exception.
C17_CheckNeverThrows ==
    last.op = "check" =>
        /\ last.result.kind \in {"null", "error"}
        /\ (last.c \in CheckedCheckers /\ isPrimitive(last.value)
            /\ ~Valid(last.c, last.value.p)) => last.result.kind = "error"

\* an untracked value of the wrong type
C17_Witness ==
    /\ last.op = "check"
    /\ last.c = "number"
    /\ last.value = Prim("x")
    /\ last.result = TypeCheckError(last.path, "number", Prim("x"))

\* C18: the function of a late type checker is evaluated at most once; the
\* first call stores the TypeChecker it returns and every call returns that
\* instance.
C18_LateEvaluatedOnce ==
    /\ fnCalls <= 1
    /\ fnCalls = 1 <=> lateCached # NoChecker
    /\ lateCached \in {NoChecker, fn(0)}
    /\ last.op = "late" => (last.result = fn(0) /\ lateCached = fn(0))

\* a call that found the stored instance
C18_Witness ==
    /\ last.op = "late"
    /\ last.hit
    /\ fnCalls = 1
    /\ last.result = fn(0)

\* C19: every call of fromSnapshotProcessor returns what the processor gives
\* for the argument as it is at the call; when the caller changed the object
\* since the call before, the result differs from the one of that call.
C19_FromNeverCached ==
    last.op = "from" =>
        /\ last.result = FromProcessor(last.c, content, last.value)
        /\ last.prev # NotCached => last.result # last.prev

\* the same object passed again after the caller changed it
C19_Witness ==
    /\ last.op = "from"
    /\ isObjectInput(last.value)
    /\ last.prev # NotCached
    /\ last.result.v = content[last.value.o]

\* C20: for an object input the "to" processor runs at most once between two
\* invalidations of the object, also when its output is undefined, and later
\* calls return the stored output; an invalidation of the object, and a
\* mutation that marks its node dirty, drop the stored output; an input that
\* is not an object is processed at every call.
C20_ToOutputCached ==
    /\ \A c \in Checkers : \A o \in Objs :
          /\ toRuns[c][o] <= 1
          /\ toRuns[c][o] = 1 <=> toSnapshotProcessorCache[c][o] # NoEntry
          /\ toSnapshotProcessorCache[c][o] # NoEntry =>
                c \in typeCheckersWithCachedSnapshotProcessorResultsOfObject[o]
    /\ (last.op = "to" /\ isObjectInput(last.value)) =>
          /\ last.result = toSnapshotProcessorCache[last.c][last.value.o]
          /\ toRuns[last.c][last.value.o] = 1
          /\ ~last.hit => last.result = ToProcessor(last.c, content, last.value)
    /\ (last.op = "to" /\ ~isObjectInput(last.value)) =>
          last.result = ToProcessor(last.c, content, last.value)
    /\ last.op = "invalidateTo" =>
          \A c \in Checkers :
              /\ toSnapshotProcessorCache[c][last.value.o] = NoEntry
              /\ toRuns[c][last.value.o] = 0
    /\ last.op = "set" =>
          \A c \in Checkers : \A a \in Ancestry(last.value.o) :
              toSnapshotProcessorCache[c][a] = NoEntry

\* a stored output that is undefined is returned without a second run
C20_Witness ==
    /\ last.op = "to"
    /\ isObjectInput(last.value)
    /\ last.hit
    /\ last.result = Undefined
    /\ toRuns[last.c][last.value.o] = 1

(***************************************************************************)
(* Properties of model property descriptors.                                *)
(***************************************************************************)
\* the last operation added a processor to a descriptor that had one
AddedFrom ==
    /\ propLast.op = "withSnapshotProcessor"
    /\ propLast.arg.kind = "fn"
    /\ props[propLast.this].fromSnapshotProcessor.kind = "fn"

AddedTo ==
    /\ propLast.op = "withSnapshotProcessor"
    /\ propLast.arg2.kind = "fn"
    /\ props[propLast.this].toSnapshotProcessor.kind = "fn"

\* C21 as stated: adding a from processor f and then a from processor g
\* yields g(f(sn)) for every sn, the latest added applied last on the way in.
C21_LatestAppliedLastOnTheWayIn ==
    AddedFrom =>
        \A sn \in ProcessorArgs :
            ApplyFn(props[propLast.ret].fromSnapshotProcessor, sn)
                = ApplyFn(propLast.arg,
                          ApplyFn(props[propLast.this].fromSnapshotProcessor, sn))

\* C21 amended: adding a from processor f and then a from processor g yields
\* f(g(sn)) for every sn, the latest added applied first on the way in.
C21_FromCompositionOrder ==
    AddedFrom =>
        \A sn \in ProcessorArgs :
            ApplyFn(props[propLast.ret].fromSnapshotProcessor, sn)
                = ApplyFn(props[propLast.this].fromSnapshotProcessor,
                          ApplyFn(propLast.arg, sn))

C21_Witness ==
    /\ AddedFrom
    /\ props[propLast.this].fromSnapshotProcessor = Fn(<<"f">>)
    /\ propLast.arg = Fn(<<"g">>)
    /\ ApplyFn(props[propLast.ret].fromSnapshotProcessor, <<"x">>) = <<"x", "g", "f">>

\* C22 as stated: adding a to processor f and then a to processor g yields
\* f(g(sn)) for every sn, the latest added applied first on the way out.
C22_LatestAppliedFirstOnTheWayOut ==
    AddedTo =>
        \A sn \in ProcessorArgs :
            ApplyFn(props[propLast.ret].toSnapshotProcessor, sn)
                = ApplyFn(props[propLast.this].toSnapshotProcessor,
                          ApplyFn(propLast.arg2, sn))

\* C22 amended: adding a to processor f and then a to processor g yields
\* g(f(sn)) for every sn, the latest added applied last on the way out, the
\* mirror of the order of the from processors.
C22_ToCompositionOrder ==
    AddedTo =>
        \A sn \in ProcessorArgs :
            ApplyFn(props[propLast.ret].toSnapshotProcessor, sn)
                = ApplyFn(propLast.arg2,
                          ApplyFn(props[propLast.this].toSnapshotProcessor, sn))

C22_Witness ==
    /\ AddedTo
    /\ props[propLast.this].toSnapshotProcessor = Fn(<<"f">>)
    /\ propLast.arg2 = Fn(<<"g">>)
    /\ ApplyFn(props[propLast.ret].toSnapshotProcessor, <<"x">>) = <<"x", "f", "g">>

\* C28: prop(fn) stores the generator and every request for the default calls
\* it anew; prop(v) stores the value and a request returns it; prop() stores
\* no default and a request returns noDefaultValue; no descriptor has both a
\* generator and a value.
C28_PropDefaults ==
    /\ propLast.op = "prop" =>
          LET d == props[propLast.ret]
          IN /\ propLast.arg = DefaultGenerator =>
                    d.defaultFn = DefaultGenerator /\ d.defaultValue = noDefaultValue
             /\ propLast.arg \notin {DefaultGenerator, NoArgument} =>
                    d.defaultValue = propLast.arg /\ d.defaultFn = noDefaultValue
             /\ propLast.arg = NoArgument =>
                    d.defaultFn = noDefaultValue /\ d.defaultValue = noDefaultValue
    /\ \A i \in 1 .. Len(props) :
          ~props[i].isId =>
              props[i].defaultFn = noDefaultValue \/ props[i].defaultValue = noDefaultValue
    /\ propLast.op = "getDefault" =>
          LET d == props[propLast.this]
          IN IF d.defaultFn # noDefaultValue
             THEN /\ generatorCalls = propLast.before + 1
                  /\ propLast.result = Generated(generatorCalls)
             ELSE /\ generatorCalls = propLast.before
                  /\ propLast.result = d.defaultValue

\* the generator is called a second time and builds a second value
C28_Witness ==
    /\ propLast.op = "getDefault"
    /\ props[propLast.this].defaultFn = DefaultGenerator
    /\ propLast.before = 1
    /\ propLast.result = Generated(2)

Modifiers == {"withSetter", "withTransform", "withSnapshotProcessor"}

\* C29: withSetter, withTransform and withSnapshotProcessor return a new
\* descriptor and leave the receiver as it was; the descriptor withSetter
\* returns differs from the receiver in the setter flag only, which is the
\* mode given, or true when none is given.
C29_ModifiersCopy ==
    [][propLast'.op \in Modifiers =>
          /\ propLast'.ret # propLast'.this
          /\ propLast'.ret \notin 1 .. Len(props)
          /\ \A i \in 1 .. Len(props) : props'[i] = props[i]
          /\ propLast'.op = "withSetter" =>
                props'[propLast'.ret] =
                    [props[propLast'.this] EXCEPT
                        !.setter = IF propLast'.arg = Prim("undefined")
                                   THEN "true" ELSE propLast'.arg.p]]_vars

\* withSetter("assign") on a descriptor that has a default and a processor
C29_Witness ==
    /\ propLast.op = "withSetter"
    /\ propLast.arg = Prim("assign")
    /\ props[propLast.this].setter = "false"
    /\ props[propLast.this].defaultValue = Prim("10")
    /\ props[propLast.this].fromSnapshotProcessor.kind = "fn"
    /\ props[propLast.ret].setter = "assign"
    /\ props[propLast.ret].defaultValue = Prim("10")

(***************************************************************************)
(* Properties of the tree under the operations of application code.         *)
(***************************************************************************)
\* the state now (PreState: the state the current operation started from)
NowState == [arr |-> arr, models |-> models, dirty |-> dirty]

\* the nodes that had a snapshot when the operation started and are still there
Snapshotted ==
    {ArrId} \cup {o \in NodeIds : call.preModels[o].live /\ models[o].live}

\* patch p records a mutation of node n or of one of its descendants
Affects(p, n) ==
    \/ p.obj = n
    \/ n = ArrId /\ SlotsOf(p.pre, p.obj) # {}

\* C23: getSnapshot(node) is reference-identical to the snapshot obtained
\* before the operation if and only if no mutation affecting the node or one
\* of its descendants happened since; an identical snapshot has the same
\* content.
C23_SnapshotStability ==
    pc # "idle" =>
        \A n \in Snapshotted :
            LET prior == getSnapshot(PreState, Node(n))
                now == getSnapshot(NowState, Node(n))
            IN /\ (now.ref = prior.ref)
                      <=> ~\E j \in 1 .. Len(patches) : Affects(patches[j], n)
               /\ now.ref = prior.ref => now = prior

\* a node was mutated while its sibling was not: the sibling's snapshot and
\* the snapshot of a node attached since are told apart from the mutated one
C23_Witness ==
    /\ pc = "done"
    /\ call.op = "setV"
    /\ \E n, s \in Snapshotted \ {ArrId} :
          /\ n # s
          /\ getSnapshot(NowState, Node(n)).ref # getSnapshot(PreState, Node(n)).ref
          /\ getSnapshot(NowState, Node(s)).ref = getSnapshot(PreState, Node(s)).ref
    /\ getSnapshot(NowState, Node(ArrId)).ref # getSnapshot(PreState, Node(ArrId)).ref

\* the next step is a mutation of a node nested in the array
ChildMutation ==
    /\ pc = "running"
    /\ pending # <<>>
    /\ Head(pending).mut.obj # ArrId
    /\ SlotsOf(arr, Head(pending).mut.obj) # {}

Content(a, ms) == [i \in 1 .. Len(a) |-> ItemContent(ms, a[i])]

\* a patch applied to the content of a snapshot of the root; the path of a
\* patch of a node starts at the slot the node was in
ApplyPatch(items, p) ==
    IF p.obj = ArrId
    THEN IF p.op = "set" THEN [items EXCEPT ![p.key] = p.value]
         ELSE IF p.op = "push" THEN Append(items, p.value)
         ELSE SubSeq(items, 1, p.key - 1)
    ELSE IF SlotsOf(p.pre, p.obj) = {} THEN items
    ELSE LET slot == CHOOSE i \in SlotsOf(p.pre, p.obj) : TRUE
         IN IF p.op = "setId" THEN [items EXCEPT ![slot].id = p.value.p]
            ELSE [items EXCEPT ![slot].v = p.value.p]

\* the inverse of a patch applied to the content of a snapshot of the root
ApplyInverse(items, p) ==
    IF p.obj = ArrId
    THEN IF p.op = "set" THEN [items EXCEPT ![p.key] = p.oldValue]
         ELSE IF p.op = "push" THEN SubSeq(items, 1, p.key - 1)
         ELSE SubSeq(items, 1, p.key - 1) \o p.removed
    ELSE IF SlotsOf(p.pre, p.obj) = {} THEN items
    ELSE LET slot == CHOOSE i \in SlotsOf(p.pre, p.obj) : TRUE
         IN IF p.op = "setId" THEN [items EXCEPT ![slot].id = p.oldValue.p]
            ELSE [items EXCEPT ![slot].v = p.oldValue.p]

\* applyPatches: the patches in emission order
RECURSIVE Replay(_, _)
Replay(items, ps) ==
    IF ps = <<>> THEN items ELSE Replay(ApplyPatch(items, Head(ps)), Tail(ps))

\* the inverse patches, last emitted first
RECURSIVE ReplayInverse(_, _)
ReplayInverse(items, ps) ==
    IF ps = <<>> THEN items
    ELSE ReplayInverse(ApplyInverse(items, ps[Len(ps)]), SubSeq(ps, 1, Len(ps) - 1))

\* C25: the patches emitted so far, applied in emission order to the snapshot
\* taken before the mutations, yield the snapshot taken after them; their
\* inverses applied to the snapshot taken after yield the one taken before.
C25_PatchReplay ==
    pc # "idle" =>
        /\ Replay(Content(call.preArr, call.preModels), patches) = Content(arr, models)
        /\ ReplayInverse(Content(arr, models), patches)
               = Content(call.preArr, call.preModels)

\* an action wrote a field of a node and then removed the node
C25_Witness ==
    /\ pc = "done"
    /\ Len(patches) = 2
    /\ patches[1].op = "set" /\ patches[1].obj # ArrId
    /\ patches[2].op = "splice"
    /\ SlotsOf(arr, patches[1].obj) = {}
    /\ Content(arr, models) # Content(call.preArr, call.preModels)

\* detachIfNeeded has something to detach
Detaches ==
    /\ call.value # call.oldValue
    /\ isModel(call.value)
    /\ \E p \in call.pool :
          /\ call.preModels[p].type = call.preModels[call.value.o].type
          /\ call.preModels[p].id = call.preModels[call.value.o].id
    /\ SlotsOf(call.preArr, call.value.o) # {}

\* C30: detachIfNeeded(newValue, oldValue, pool) changes the state only when
\* newValue differs from oldValue, is a model, the pool has an entry for its
\* (type, id) and it has a parent; it then writes null into the slot of
\* newValue, the array keeps its length and newValue has no parent afterwards;
\* in every other case nothing changes.
C30_DetachFrame ==
    (call.op = "detachIfNeeded" /\ pc # "idle") =>
        /\ fin.models = call.preModels
        /\ fin.outcome.status = "returned"
        /\ IF Detaches
           THEN LET slot == CHOOSE i \in SlotsOf(call.preArr, call.value.o) : TRUE
                IN /\ Len(Muts) = 1
                   /\ Muts[1].op = "set" /\ Muts[1].obj = ArrId
                   /\ Muts[1].key = slot /\ Muts[1].new = Null
                   /\ pc = "done" =>
                         /\ arr = [call.preArr EXCEPT ![slot] = Null]
                         /\ Len(arr) = Len(call.preArr)
                         /\ fastGetParentPathIncludingDataObjects(NowState, call.value)
                                = NoParent
           ELSE /\ Muts = <<>>
                /\ arr = call.preArr

\* a parented model of the pool was detached
C30_Witness ==
    /\ call.op = "detachIfNeeded"
    /\ pc = "done"
    /\ Detaches
    /\ Len(arr) = 2
    /\ \E i \in 1 .. 2 : call.preArr[i] = call.value /\ arr[i] = Null

\* the last operation assigned a value-type node that had a parent to a
\* second place
SharedValueType ==
    /\ call.op = "attach"
    /\ pc = "done"
    /\ isValueType(PreState, call.value)
    /\ SlotsOf(call.preArr, call.value.o) # {}
    /\ (call.key = Len(call.preArr) + 1 \/ call.preArr[call.key] # call.value)

\* the next step is a mutation of node o
MutationOf(o) ==
    /\ pc = "running"
    /\ pending # <<>>
    /\ Head(pending).mut.obj = o

SameIdentities == pc # "done"

\* C27 as stated: the (type, id) pair of a model node never changes after the
\* node is created, whatever mutations, actions and reconciliations happen.
C27_IdNeverChanges ==
    [][SameIdentities =>
          \A o \in NodeIds :
              (models[o].live /\ models'[o].live) =>
                  /\ models'[o].type = models[o].type
                  /\ models'[o].id = models[o].id]_vars

\* C27 amended: the type of a model node never changes after the node is
\* created, and its id changes only when a model action writes the id
\* property of that node; no other mutation and no reconciliation changes it.
C27_IdChangesOnlyByWrite ==
    [][SameIdentities =>
          \A o \in NodeIds :
              (models[o].live /\ models'[o].live) =>
                  /\ models'[o].type = models[o].type
                  /\ \/ models'[o].id = models[o].id
                     \/ call.op = "writeId" /\ call.value = Node(o)]_vars

\* a reconciliation changed the data of a node and left its type and id
C27_Witness ==
    /\ pc = "done"
    /\ call.op = "reconcileSnapshot"
    /\ \E o \in TreeNodes(arr) :
          /\ call.preModels[o].live
          /\ models[o].v # call.preModels[o].v
          /\ models[o].id = call.preModels[o].id
          /\ call.sn.kind = "model"
          /\ call.sn.id = models[o].id

(***************************************************************************)
(* Properties of the reconciler registry.                                   *)
(***************************************************************************)
\* the registry is in non-decreasing priority order
SortedRegistry(regs) ==
    \A i, j \in 1 .. Len(regs) : i < j => regs[i].priority <= regs[j].priority

\* regs without its entry k
WithoutEntry(regs, k) == SubSeq(regs, 1, k - 1) \o SubSeq(regs, k + 1, Len(regs))

\* new is old with one entry more, which stands behind every entry of its
\* priority
OneRegistered(old, new) ==
    \E k \in 1 .. Len(new) :
        /\ WithoutEntry(new, k) = old
        /\ \A j \in (k + 1) .. Len(new) : new[j].priority > new[k].priority

\* new is old after the registrations of registerDefaultReconcilers
DefaultsRegistered(old, new) ==
    \E k \in 1 .. Len(new) :
        /\ OneRegistered(WithoutEntry(new, k), new)
        /\ OneRegistered(old, WithoutEntry(new, k))

\* C31: after any sequence of registerReconciler calls the registry is sorted
\* by non-decreasing priority, every call has added exactly one entry and
\* removed or moved none, entries of equal priority stand in registration
\* order, and the pass of a reconcileSnapshot call leaves the registry as it
\* was when the pass began to iterate.
C31_RegistrySorted ==
    [][/\ SortedRegistry(reconcilers')
       /\ (pc = "idle" /\ pc' = "idle" /\ reconcilers' # reconcilers) =>
              OneRegistered(reconcilers, reconcilers')
       /\ (pc = "idle" /\ pc' = "running") =>
              /\ \/ reconcilers' = reconcilers
                 \/ /\ ~defaultReconcilersRegistered(reconcilers)
                    /\ DefaultsRegistered(reconcilers, reconcilers')
              /\ \A k \in 1 .. Len(fin'.outcome.tried) :
                    /\ k <= Len(reconcilers')
                    /\ fin'.outcome.tried[k].index = k
                    /\ fin'.outcome.tried[k].priority = reconcilers'[k].priority
                    /\ fin'.outcome.tried[k].reconciler = reconcilers'[k].reconciler
       /\ pc \in {"running", "done"} => reconcilers' = reconcilers]_vars

\* two reconcilers of equal priority stand among the default reconcilers, and
\* a pass has gone through the whole registry
C31_Witness ==
    /\ pc = "done"
    /\ Len(reconcilers) = 4
    /\ \E i \in 1 .. 3 :
          /\ reconcilers[i].priority = reconcilers[i + 1].priority
          /\ reconcilers[i].reconciler = "c1"
          /\ reconcilers[i + 1].reconciler = "c2"
    /\ Len(outcome.tried) = 4

(***************************************************************************)
(* Frame and termination of the invalidations.                              *)
(***************************************************************************)
\* C32: invalidateCachedTypeCheckerResult(n) removes cached check results
\* only for n and its ancestors: the cached results and the listeners of the
\* descendants of n, of its siblings and of the objects of other trees are
\* as they were.
C32_InvalidationFrame ==
    [][last'.op = "invalidate" =>
          \A o \in Objs \ Ancestry(last'.value.o) :
              /\ \A c \in Checkers :
                    checkResultCache'[c][o] = checkResultCache[c][o]
              /\ typeCheckersWithCachedResultsOfObject'[o]
                     = typeCheckersWithCachedResultsOfObject[o]]_vars

\* the object and its ancestors had cached results and lost them; a child of
\* the object and an object of another tree keep theirs
C32_Witness ==
    /\ last.op = "invalidate"
    /\ last.hit
    /\ \E d \in Objs :
          /\ parentOf[d] = last.value.o
          /\ HasCachedResult(d)
    /\ \E x \in Objs \ Ancestry(last.value.o) :
          /\ parentOf[x] = NoObj
          /\ HasCachedResult(x)

\* C37: invalidateCachedTypeCheckerResult(n) terminates: its loop goes
\* through n and then through each ancestor of n once, from parent to
\* parent, and ends at the root, the object without parent; the parent
\* relation of the tree has no cycle.
C37_WalkTerminates ==
    last.op = "invalidate" =>
        LET visited == last.prev.visited
        IN /\ Len(visited) \in 1 .. MaxObjs
           /\ visited[1] = last.value.o
           /\ \A i \in 1 .. (Len(visited) - 1) :
                 visited[i + 1] = parentOf[visited[i]]
           /\ parentOf[visited[Len(visited)]] = NoObj
           /\ \A i, j \in 1 .. Len(visited) : visited[i] = visited[j] => i = j

\* the walk from a grandchild went through three objects
C37_Witness ==
    /\ last.op = "invalidate"
    /\ Len(last.prev.visited) = 3
    /\ parentOf[last.prev.visited[3]] = NoObj

\* C33: invalidateCachedToSnapshotProcessorResult(obj) drops the cached "to"
\* outputs keyed on obj in every checker that cached one and the listener set
\* of obj, and nothing else: the outputs cached for the ancestors of obj and
\* for other objects, their listener sets and the cached check results are
\* as they were.
C33_ProcessorInvalidationFrame ==
    [][last'.op = "invalidateTo" =>
          LET obj == last'.value.o
          IN /\ \A c \in Checkers : toSnapshotProcessorCache'[c][obj] = NoEntry
             /\ typeCheckersWithCachedSnapshotProcessorResultsOfObject'[obj] = {}
             /\ \A o \in Objs \ {obj} :
                   /\ \A c \in Checkers :
                         toSnapshotProcessorCache'[c][o] = toSnapshotProcessorCache[c][o]
                   /\ typeCheckersWithCachedSnapshotProcessorResultsOfObject'[o]
                          = typeCheckersWithCachedSnapshotProcessorResultsOfObject[o]
             /\ UNCHANGED <<parentOf, content, checkResultCache,
                            typeCheckersWithCachedResultsOfObject>>]_vars

\* two checkers had an output for the object; its parent keeps the output it
\* has
C33_Witness ==
    /\ last.op = "invalidateTo"
    /\ Cardinality(last.prev.of) = 2
    /\ parentOf[last.value.o] # NoObj
    /\ \E c \in Checkers :
          toSnapshotProcessorCache[c][parentOf[last.value.o]] # NoEntry
    /\ \A c \in Checkers : toSnapshotProcessorCache[c][last.value.o] = NoEntry

\* every processor pair added to descriptor i has a fromSnapshot and, as
\* toSnapshot, its inverse
InverseLayers(i) ==
    /\ layers[i] # <<>>
    /\ \A k \in 1 .. Len(layers[i]) :
          /\ layers[i][k].from.kind = "fn"
          /\ layers[i][k].to = InverseOf(layers[i][k].from)

\* C34: when every layer added with withSnapshotProcessor has the inverse of
\* its fromSnapshot as toSnapshot, the combined toSnapshot processor applied
\* to the result of the combined fromSnapshot processor gives the snapshot
\* back, for any number of layers.
C34_ComposedRoundTrip ==
    \A i \in 1 .. Len(props) :
        InverseLayers(i) =>
            \A sn \in ProcessorArgs :
                ApplyFn(props[i].toSnapshotProcessor,
                        ApplyFn(props[i].fromSnapshotProcessor, sn)) = sn

\* a descriptor with the two layers f and g, each with its inverse
C34_Witness ==
    \E i \in 1 .. Len(props) :
        /\ InverseLayers(i)
        /\ Len(layers[i]) = 2
        /\ layers[i][1].from = Fn(<<"f">>)
        /\ layers[i][2].from = Fn(<<"g">>)
        /\ ApplyFn(props[i].fromSnapshotProcessor, <<"x">>) = <<"x", "g", "f">>
        /\ ApplyFn(props[i].toSnapshotProcessor, <<"x", "g", "f">>) = <<"x">>

\* C35: an untransform call that has returned stored the pair (original,
\* transformed) for its property exactly when the user's untransform called
\* cacheTransformedValue during that same call, and removed the entry of the
\* property otherwise, whether or not other untransform calls ran inside it
\* or around it.
C35_UntransformDecidedByOwnCallback ==
    transformLast.op = "untransform" =>
        IF transformLast.called
        THEN transformCache[transformLast.key] =
                CacheEntry(transformLast.originalValue,
                           transformLast.transformedValue)
        ELSE transformCache[transformLast.key] = NoEntry

\* the stored original value is identical to the one transform is called with
StoredFor(entry, originalValue) ==
    IF entry = NoEntry THEN FALSE ELSE entry.originalValue = originalValue

\* C36: transform hands the user's transform the stored transformed value
\* exactly when the stored original value is identical to the current one,
\* and undefined otherwise; after the call the cache holds the current pair
\* (original, transformed); a null or undefined original, and a null or
\* undefined transformed value on untransform, is returned as it is without
\* a call of the user's function.
C36_TransformCaching ==
    /\ transformLast.op = "transform" =>
          /\ transformLast.userCalled <=> ~IsNullish(transformLast.originalValue)
          /\ transformLast.userCalled =>
                transformLast.handed =
                   IF StoredFor(transformLast.pre, transformLast.originalValue)
                   THEN transformLast.pre.transformedValue
                   ELSE Undefined
          /\ ~transformLast.userCalled =>
                transformLast.transformedValue = transformLast.originalValue
          /\ transformCache[transformLast.key] =
                CacheEntry(transformLast.originalValue,
                           transformLast.transformedValue)
    /\ (/\ transformLast.op = "untransform"
        /\ IsNullish(transformLast.transformedValue)) =>
          /\ ~transformLast.userCalled
          /\ transformLast.originalValue = transformLast.transformedValue

\* transform was called with the original value the entry was stored for,
\* the user's transform was handed the stored transformed value and returned
\* another one, which the cache now holds
C36_Witness ==
    /\ transformLast.op = "transform"
    /\ transformLast.userCalled
    /\ StoredFor(transformLast.pre, transformLast.originalValue)
    /\ transformLast.handed = transformLast.pre.transformedValue
    /\ transformLast.handed = Prim("t1")
    /\ transformLast.transformedValue = Prim("t2")
    /\ transformCache[transformLast.key] =
          CacheEntry(transformLast.originalValue, Prim("t2"))
    /\ untransforms # <<>>

=============================================================================
